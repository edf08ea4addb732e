------------------------- MODULE PluginRunnerProofs --------------------------
(***************************************************************************)
(* Proofs about PluginRunner, for chains of any length and any bounds.     *)
(* Pipes touch nothing of what triggers and the cache are about, so a step *)
(* either leaves the one half alone or the other.                          *)
(***************************************************************************)
EXTENDS PluginRunner, FiniteSetTheorems, SequenceTheorems, TLAPS

AnyKey == CHOOSE k \in Keys : TRUE

FrameSet ==
  [mode : PipeModes \cup TriggerModes, at : 1..Length + 1, key : Keys \cup {AnyKey},
   ttl : Ttls \cup {Never}, began : Nat, ended : Nat,
   state : {"running", "forwarding", "fulfilled", "rejected"},
   called : BOOLEAN, misused : BOOLEAN, down : SUBSET Nat, awaits : Nat, by : Nat,
   why : {"none", "disposed", "fatal", "misused", "downstream"}]

\* What a frame x has in line behind it: nothing before its continuation is
\* called or it is passed over, then one frame, and a second when it was passed
\* over before its continuation was called.
Line(x) ==
  \/ ~x.called /\ x.awaits = 0 /\ x.down = {}
  \/ x.called /\ x.awaits = 0 /\ \E g \in Nat : x.down = {g}
  \/ x.awaits # 0 /\ x.down = {x.awaits}
  \/ x.called /\ x.awaits # 0 /\ \E g \in Nat : g > x.awaits /\ x.down = {x.awaits, g}

\* Frame x, the f-th of n.
Sound(x, f, n) ==
  /\ x.by \in 0..n
  /\ x.down \subseteq (f + 1)..n
  /\ x.state = "running" => x.by = 0 /\ x.awaits = 0
  /\ x.state = "forwarding" => x.by = 0 /\ x.awaits # 0
  /\ x.misused => x.state \in {"running", "rejected"}
  /\ Line(x)

Kinds ==
  /\ frames \in Seq(FrameSet) /\ Len(frames) <= MaxFrames
  /\ cache \in [Chain -> [Keys -> Entry]]
  /\ disposed \subseteq Chain /\ now \in Nat
  /\ \A f \in Frames : Sound(frames[f], f, Len(frames))

\* What a trigger was answered, and when.
Answered(f) ==
  LET frame == frames[f]  from == frames[frame.by]
  IN /\ frame.at \in Chain /\ frame.key \in Keys /\ ~frame.misused
     /\ frame.state # "forwarding" /\ frame.began <= now /\ frame.ended <= now
     /\ frame.by \notin {0, f} =>
          /\ from.at = frame.at /\ from.key = frame.key /\ ~Piped(frame.by)
          /\ from.by = frame.by
          /\ from.ttl = Never \/ frame.began < from.ended + from.ttl

\* What is in the cache is the answer of a trigger, with its time to live.
Kept(r, k) ==
  LET g == cache[r][k].by
  IN g # 0 =>
       /\ g \in Frames /\ ~Piped(g) /\ frames[g].at = r /\ frames[g].key = k
       /\ frames[g].by = g
       /\ cache[r][k].until = IF frames[g].ttl = Never THEN Never
                              ELSE frames[g].ended + frames[g].ttl

Triggers ==
  /\ \A f \in Frames : ~Piped(f) => Answered(f)
  /\ \A r \in Chain, k \in Keys : Kept(r, k)
  /\ LastAnswerIsKept

IInv == Kinds /\ Triggers /\ ValuesComeFromBelow

-----------------------------------------------------------------------------
\* A frame added at the end leaves the others as they are.
LEMMA Appended ==
  ASSUME NEW s \in Seq(FrameSet), NEW x \in FrameSet
  PROVE  /\ Append(s, x) \in Seq(FrameSet) /\ Len(Append(s, x)) = Len(s) + 1
         /\ \A i \in 1..Len(s) : Append(s, x)[i] = s[i]
         /\ Append(s, x)[Len(s) + 1] = x
BY SMT

\* A frame replaced leaves the others as they are.
LEMMA Changed ==
  ASSUME NEW s \in Seq(FrameSet), NEW f \in 1..Len(s), NEW x \in FrameSet
  PROVE  /\ [s EXCEPT ![f] = x] \in Seq(FrameSet) /\ Len([s EXCEPT ![f] = x]) = Len(s)
         /\ \A i \in 1..Len(s) : [s EXCEPT ![f] = x][i] = IF i = f THEN x ELSE s[i]
BY SMT

\* A frame with one of its fields changed is a frame.
LEMMA OneField ==
  ASSUME NEW x \in FrameSet
  PROVE  /\ \A v \in {"running", "forwarding", "fulfilled", "rejected"} :
              [x EXCEPT !.state = v] \in FrameSet
         /\ \A v \in Nat : [x EXCEPT !.ended = v] \in FrameSet
         /\ \A v \in Nat : [x EXCEPT !.by = v] \in FrameSet
         /\ \A v \in Nat : [x EXCEPT !.awaits = v] \in FrameSet
         /\ \A v \in SUBSET Nat : [x EXCEPT !.down = v] \in FrameSet
         /\ \A v \in BOOLEAN : [x EXCEPT !.called = v] \in FrameSet
         /\ \A v \in BOOLEAN : [x EXCEPT !.misused = v] \in FrameSet
         /\ \A v \in {"none", "disposed", "fatal", "misused", "downstream"} :
              [x EXCEPT !.why = v] \in FrameSet
BY DEF FrameSet

\* A frame that is settled is one of the set.
LEMMA SettledIsFrame ==
  ASSUME NEW x \in FrameSet, Clock(x.mode) \in Nat
  PROVE  /\ \A g \in Nat : Fulfilled(x, g) \in FrameSet
         /\ \A v \in {"none", "disposed", "fatal", "misused", "downstream"} :
              Rejected(x, v) \in FrameSet
<1>1. ASSUME NEW g \in Nat PROVE Fulfilled(x, g) \in FrameSet
  BY OneField DEF Fulfilled
<1>2. ASSUME NEW v \in {"none", "disposed", "fatal", "misused", "downstream"}
      PROVE  Rejected(x, v) \in FrameSet
  BY OneField DEF Rejected
<1>. QED BY <1>1, <1>2

\* A new frame is one of the set.
LEMMA FreshIsFrame ==
  ASSUME Kinds, NEW mode \in PipeModes \cup TriggerModes, NEW at \in 1..Length + 1,
         NEW key \in Keys \cup {AnyKey}, NEW ttl \in Ttls \cup {Never}
  PROVE  /\ Fresh(mode, at, key, ttl) \in FrameSet
         /\ Rejected(Fresh(mode, at, key, ttl), "disposed") \in FrameSet
         /\ \A g \in Nat : Fulfilled(Fresh(mode, at, key, ttl), g) \in FrameSet
<1>1. Clock(mode) \in Nat BY DEF Kinds, Clock
<1>2. Fresh(mode, at, key, ttl) \in FrameSet
  BY <1>1, SMTT(60) DEF Fresh, FrameSet
<1>3. Fresh(mode, at, key, ttl).mode = mode BY DEF Fresh
<1>. QED BY <1>1, <1>2, <1>3, SettledIsFrame

\* So is the frame of a handler that a pipe has just entered.
LEMMA DispatchedIsFrame ==
  ASSUME Kinds, NEW mode \in PipeModes, NEW at \in 1..Length + 1
  PROVE  LET x == Dispatched(mode, at)
         IN /\ x \in FrameSet /\ x.mode = mode /\ x.state \in {"running", "rejected"}
            /\ x.by = 0 /\ ~x.called /\ ~x.misused /\ x.awaits = 0 /\ x.down = {}
BY FreshIsFrame DEF Dispatched, AnyKey, Fresh, Rejected

\* What the rest of a chain means for the frame it belongs to.
LEMMA LineIsOnce ==
  ASSUME NEW x \in FrameSet, Line(x)
  PROVE  /\ x.awaits \in x.down \cup {0}
         /\ IsFiniteSet(x.down)
         /\ Cardinality(x.down) > 1 =>
              /\ Cardinality(x.down) = 2 /\ x.called /\ x.awaits # 0
              /\ \A g \in x.down : x.awaits <= g
<1>1. CASE x.down = {}
  BY <1>1, FS_EmptySet DEF Line
<1>2. CASE \E g \in Nat : x.down = {g}
  <2>1. PICK g \in Nat : x.down = {g} BY <1>2
  <2>2. IsFiniteSet({g}) /\ Cardinality({g}) = 1 BY FS_Singleton
  <2>. QED BY <2>1, <2>2 DEF Line, FrameSet
<1>3. CASE x.called /\ x.awaits # 0 /\ \E g \in Nat : g > x.awaits /\ x.down = {x.awaits, g}
  <2>1. PICK g \in Nat : g > x.awaits /\ x.down = {x.awaits, g} BY <1>3
  <2>2. x.awaits \in Nat BY DEF FrameSet
  <2>3. IsFiniteSet({x.awaits}) /\ Cardinality({x.awaits}) = 1 BY FS_Singleton
  <2>4. g \notin {x.awaits} BY <2>1, <2>2
  <2>5. {x.awaits, g} = {x.awaits} \cup {g} OBVIOUS
  <2>6. IsFiniteSet(x.down) /\ Cardinality(x.down) = 2
    <3>1. /\ IsFiniteSet({x.awaits} \cup {g})
          /\ Cardinality({x.awaits} \cup {g}) = Cardinality({x.awaits}) + 1
      BY <2>3, <2>4, FS_AddElement
    <3>. QED BY <2>1, <2>3, <2>5, <3>1
  <2>. QED BY <2>1, <2>2, <2>6, <1>3
<1>. QED BY <1>1, <1>2, <1>3 DEF Line, FrameSet

-----------------------------------------------------------------------------
(* What the invariant implies *)

\* The invariant implies the properties.
LEMMA Implies == IInv => HitsAreFresh /\ LastAnswerIsKept /\ ValuesComeFromBelow /\ RestRunsOnce
<1>. SUFFICES ASSUME IInv
     PROVE HitsAreFresh /\ LastAnswerIsKept /\ ValuesComeFromBelow /\ RestRunsOnce
  OBVIOUS
<1>1. \A f \in Frames : frames[f] \in FrameSet /\ Sound(frames[f], f, Len(frames))
  BY DEF IInv, Kinds, Frames
<1>2. TypeOK
  <2>1. ASSUME NEW f \in Frames
        PROVE /\ frames[f].at \in 1..Length + 1 /\ frames[f].by \in Frames \cup {0}
              /\ frames[f].state \in {"running", "forwarding", "fulfilled", "rejected"}
              /\ frames[f].down \subseteq (f + 1)..Len(frames)
              /\ frames[f].awaits \in frames[f].down \cup {0}
    <3>1. frames[f] \in FrameSet /\ Sound(frames[f], f, Len(frames)) BY <1>1
    <3>2. frames[f].awaits \in frames[f].down \cup {0} BY <3>1, LineIsOnce DEF Sound
    <3>3. Len(frames) \in Nat BY DEF IInv, Kinds
    <3>. QED BY <3>1, <3>2, <3>3 DEF Sound, FrameSet, Frames
  <2>. QED BY <2>1 DEF TypeOK, IInv, Kinds
<1>3. HitsAreFresh
  BY <1>2 DEF HitsAreFresh, IInv, Triggers, Answered
<1>4. RestRunsOnce
  <2>. SUFFICES ASSUME NEW f \in Frames
       PROVE /\ frames[f].misused /\ Settled(f) => frames[f].state = "rejected"
             /\ Cardinality(frames[f].down) > 1 =>
                  /\ Cardinality(frames[f].down) = 2
                  /\ frames[f].called /\ frames[f].awaits # 0
                  /\ \A g \in frames[f].down : frames[f].awaits <= g
    BY DEF RestRunsOnce
  <2>1. frames[f] \in FrameSet /\ Sound(frames[f], f, Len(frames)) BY <1>1
  <2>. QED BY <2>1, LineIsOnce DEF Sound, Settled
<1>. QED BY <1>3, <1>4 DEF IInv, Triggers

-----------------------------------------------------------------------------
(* Steps of pipes *)

\* A sound frame stays so when frames are added.
LEMMA SoundGrows ==
  ASSUME NEW x, NEW f \in Nat, NEW n \in Nat, NEW m \in Nat, n <= m, Sound(x, f, n)
  PROVE  Sound(x, f, m)
<1>1. x.by \in 0..m BY DEF Sound
<1>2. x.down \subseteq (f + 1)..m BY DEF Sound
<1>. QED BY <1>1, <1>2 DEF Sound

\* The value of a pipe is that of its handler or of what it stands for.
Value(fs, f) ==
  fs[f].mode \in PipeModes /\ fs[f].state = "fulfilled" =>
    \/ fs[f].by = f
    \/ \E g \in fs[f].down :
         /\ g = fs[f].awaits
         /\ fs[g].state = "fulfilled" /\ fs[g].by = fs[f].by

\* A step of the frames of pipes alone keeps the invariant: the cache is none of
\* their business.
LEMMA PipesKeepOut ==
  ASSUME IInv, UNCHANGED <<cache, disposed, now>>,
         frames' \in Seq(FrameSet), Len(frames) <= Len(frames'), Len(frames') <= MaxFrames,
         \A f \in 1..Len(frames') : Sound(frames'[f], f, Len(frames')) /\ Value(frames', f),
         \A f \in Frames : ~Piped(f) => frames'[f] = frames[f],
         \A f \in Frames : Piped(f) => frames'[f].mode \in PipeModes,
         \A f \in 1..Len(frames') : f \notin Frames => frames'[f].mode \in PipeModes
  PROVE  IInv'
<1>1. Kinds' BY DEF IInv, Kinds, Frames
<1>2. \A f \in Frames' : ~Piped(f)' => f \in Frames /\ ~Piped(f) /\ frames'[f] = frames[f]
  BY DEF Frames, Piped
<1>3. \A f \in Frames : ~Piped(f) => f \in Frames' /\ ~Piped(f)' /\ frames'[f] = frames[f]
  BY DEF Frames, Piped, IInv, Kinds
<1>4. \A f \in Frames : frames[f].by \in Frames \cup {0}
  BY DEF IInv, Kinds, Sound, Frames
<1>5. ASSUME NEW f \in Frames', ~Piped(f)' PROVE Answered(f)'
  <2>1. f \in Frames /\ ~Piped(f) /\ frames'[f] = frames[f] BY <1>2, <1>5
  <2>2. Answered(f) BY <2>1 DEF IInv, Triggers
  <2>. QED BY <1>3, <1>4, <2>1, <2>2 DEF Answered
<1>6. ASSUME NEW r \in Chain, NEW k \in Keys PROVE Kept(r, k)'
  BY <1>3 DEF IInv, Triggers, Kept
<1>7. LastAnswerIsKept'
  <2>. SUFFICES ASSUME NEW r \in Chain \ disposed', NEW k \in Keys, cache'[r][k].by # 0,
                       NEW f \in Frames', ~Piped(f)', frames'[f].at = r, frames'[f].key = k,
                       frames'[f].by = f
       PROVE frames'[f].ended <= frames'[cache'[r][k].by].ended
    BY DEF LastAnswerIsKept
  <2>1. f \in Frames /\ ~Piped(f) /\ frames'[f] = frames[f] BY <1>2
  <2>2. Kept(r, k) BY DEF IInv, Triggers
  <2>3. frames'[cache'[r][k].by] = frames[cache[r][k].by] BY <1>3, <2>2 DEF Kept
  <2>4. LastAnswerIsKept BY DEF IInv, Triggers
  <2>. QED BY <2>1, <2>3, <2>4 DEF LastAnswerIsKept
<1>8. ValuesComeFromBelow'
  BY DEF ValuesComeFromBelow, Value, Frames, Piped
<1>. QED BY <1>1, <1>5, <1>6, <1>7, <1>8 DEF IInv, Triggers

\* A pipe's frame f becomes x.
LEMMA ChangeOne ==
  ASSUME IInv, UNCHANGED <<cache, disposed, now>>, NEW f \in Frames, NEW x \in FrameSet,
         frames' = [frames EXCEPT ![f] = x], Piped(f), x.mode = frames[f].mode,
         Sound(x, f, Len(frames)), Value(frames', f),
         frames[f].state = "fulfilled" => x.state = "fulfilled" /\ x.by = frames[f].by
  PROVE  IInv'
<1>1. frames \in Seq(FrameSet) /\ Len(frames) <= MaxFrames BY DEF IInv, Kinds
<1>2. /\ frames' \in Seq(FrameSet) /\ Len(frames') = Len(frames)
      /\ \A i \in 1..Len(frames) : frames'[i] = IF i = f THEN x ELSE frames[i]
  BY <1>1, Changed DEF Frames
<1>3. ASSUME NEW i \in 1..Len(frames') PROVE Sound(frames'[i], i, Len(frames')) /\ Value(frames', i)
  <2>1. CASE i = f BY <2>1, <1>2
  <2>2. CASE i # f
    <3>1. frames'[i] = frames[i] /\ Sound(frames[i], i, Len(frames))
      BY <1>2, <2>2 DEF IInv, Kinds, Frames
    <3>2. Value(frames, i) BY <1>2 DEF IInv, ValuesComeFromBelow, Value, Frames, Piped
    <3>3. frames[i].down \subseteq 1..Len(frames)
      BY <3>1, <1>1 DEF Sound
    <3>4. Value(frames', i) BY <3>1, <3>2, <3>3, <1>2 DEF Value
    <3>. QED BY <3>1, <3>4, <1>2
  <2>. QED BY <2>1, <2>2
<1>4. /\ \A i \in Frames : ~Piped(i) => frames'[i] = frames[i]
      /\ \A i \in Frames : Piped(i) => frames'[i].mode \in PipeModes
      /\ \A i \in 1..Len(frames') : i \notin Frames => frames'[i].mode \in PipeModes
  BY <1>1, <1>2 DEF Frames, Piped
<1>5. Len(frames) <= Len(frames') /\ Len(frames') <= MaxFrames BY <1>1, <1>2
<1>. QED BY <1>2, <1>3, <1>4, <1>5, PipesKeepOut

\* A frame is appended, and frame f of a pipe becomes x.
LEMMA GrowOne ==
  ASSUME IInv, UNCHANGED <<cache, disposed, now>>, Len(frames) < MaxFrames,
         NEW f \in Frames, NEW x \in FrameSet, NEW y \in FrameSet,
         frames' = [Append(frames, y) EXCEPT ![f] = x], Piped(f), x.mode = frames[f].mode,
         Sound(x, f, Len(frames) + 1), x.state # "fulfilled" \/ x.by = frames[f].by,
         x.state = frames[f].state \/ (x.state = "forwarding" /\ frames[f].state = "running"),
         x.state = "fulfilled" => x.awaits = frames[f].awaits /\ frames[f].down \subseteq x.down,
         y.mode \in PipeModes, y.state \in {"running", "rejected"}, y.by = 0, ~y.called,
         ~y.misused, y.awaits = 0, y.down = {}
  PROVE  IInv'
<1>. DEFINE n == Len(frames)
<1>1. frames \in Seq(FrameSet) /\ n \in Nat BY DEF IInv, Kinds
<1>2. MaxFrames \in Nat BY RunnerAssumption
<1>3. /\ Append(frames, y) \in Seq(FrameSet) /\ Len(Append(frames, y)) = n + 1
      /\ \A i \in 1..n : Append(frames, y)[i] = frames[i]
      /\ Append(frames, y)[n + 1] = y
  BY <1>1, Appended
<1>4. /\ frames' \in Seq(FrameSet) /\ Len(frames') = n + 1
      /\ \A i \in 1..n + 1 : frames'[i] = IF i = f THEN x ELSE Append(frames, y)[i]
  <2>1. f \in 1..Len(Append(frames, y)) BY <1>1, <1>3 DEF Frames
  <2>2. ASSUME NEW s \in Seq(FrameSet), f \in 1..Len(s), Len(s) = n + 1,
               frames' = [s EXCEPT ![f] = x]
        PROVE  /\ frames' \in Seq(FrameSet) /\ Len(frames') = n + 1
               /\ \A i \in 1..n + 1 : frames'[i] = IF i = f THEN x ELSE s[i]
    <3>1. /\ [s EXCEPT ![f] = x] \in Seq(FrameSet) /\ Len([s EXCEPT ![f] = x]) = Len(s)
          /\ \A i \in 1..Len(s) : [s EXCEPT ![f] = x][i] = IF i = f THEN x ELSE s[i]
      BY <2>2, Changed
    <3>. QED BY <2>2, <3>1
  <2>. QED BY <1>3, <2>1, <2>2
<1>5. f # n + 1 /\ f \in 1..n BY <1>1 DEF Frames
<1>6. /\ \A i \in 1..n : frames'[i] = IF i = f THEN x ELSE frames[i]
      /\ frames'[n + 1] = y
  BY <1>1, <1>3, <1>4, <1>5
<1>7. ASSUME NEW i \in 1..n PROVE Sound(frames'[i], i, n + 1) /\ Value(frames', i)
  <2>1. Sound(frames[i], i, n) BY DEF IInv, Kinds, Frames
  <2>2. Sound(frames[i], i, n + 1) BY <1>1, <2>1, SoundGrows
  <2>3. Value(frames, i) BY DEF IInv, ValuesComeFromBelow, Value, Frames, Piped
  <2>4. frames[i].down \subseteq 1..n BY <2>1, <1>1 DEF Sound
  <2>5. ASSUME NEW g \in 1..n, frames[g].state = "fulfilled"
        PROVE frames'[g].state = "fulfilled" /\ frames'[g].by = frames[g].by
    BY <2>5, <1>6
  <2>6. CASE i = f
    <3>1. frames'[i] = x BY <1>6, <2>6
    <3>2. Value(frames', i) BY <3>1, <2>3, <2>4, <2>5, <2>6 DEF Value
    <3>. QED BY <3>1, <3>2, <2>6
  <2>7. CASE i # f
    <3>1. frames'[i] = frames[i] BY <1>6, <2>7
    <3>2. Value(frames', i) BY <3>1, <2>3, <2>4, <2>5 DEF Value
    <3>. QED BY <3>1, <3>2, <2>2
  <2>. QED BY <2>6, <2>7
<1>8. Sound(y, n + 1, n + 1) /\ Value(frames', n + 1)
  BY <1>1, <1>6 DEF Sound, Line, Value
<1>9. \A i \in 1..Len(frames') : Sound(frames'[i], i, Len(frames')) /\ Value(frames', i)
  BY <1>1, <1>4, <1>6, <1>7, <1>8
<1>10. /\ \A i \in Frames : ~Piped(i) => frames'[i] = frames[i]
       /\ \A i \in Frames : Piped(i) => frames'[i].mode \in PipeModes
       /\ \A i \in 1..Len(frames') : i \notin Frames => frames'[i].mode \in PipeModes
  BY <1>1, <1>4, <1>6 DEF Frames, Piped
<1>11. Len(frames) <= Len(frames') /\ Len(frames') <= MaxFrames BY <1>1, <1>2, <1>4
<1>. QED BY <1>4, <1>9, <1>10, <1>11, PipesKeepOut

\* What a frame is that was settled.
LEMMA Fields ==
  ASSUME NEW x \in FrameSet
  PROVE  /\ \A g \in Nat : LET y == Fulfilled(x, g)
              IN /\ y.state = "fulfilled" /\ y.by = g /\ y.mode = x.mode /\ y.at = x.at
                 /\ y.key = x.key /\ y.ttl = x.ttl /\ y.began = x.began
                 /\ y.called = x.called /\ y.misused = x.misused /\ y.down = x.down
                 /\ y.awaits = x.awaits /\ y.ended = Clock(x.mode)
         /\ \A v : LET y == Rejected(x, v)
              IN /\ y.state = "rejected" /\ y.by = x.by /\ y.mode = x.mode /\ y.at = x.at
                 /\ y.key = x.key /\ y.ttl = x.ttl /\ y.began = x.began
                 /\ y.called = x.called /\ y.misused = x.misused /\ y.down = x.down
                 /\ y.awaits = x.awaits /\ y.ended = Clock(x.mode)
BY DEF Fulfilled, Rejected, FrameSet

\* What the invariant says of one frame.
LEMMA Known ==
  ASSUME IInv, NEW f \in Frames
  PROVE  /\ frames[f] \in FrameSet /\ Sound(frames[f], f, Len(frames)) /\ Len(frames) \in Nat
         /\ f \in 1..Len(frames) /\ \A m : Clock(m) \in Nat
BY DEF IInv, Kinds, Frames, Clock

\* pipe() enters its first handler.
LEMMA PipeKeeps ==
  ASSUME IInv, NEW mode \in PipeModes, Len(frames) < MaxFrames, Pipe(mode)
  PROVE  IInv'
<1>. DEFINE n == Len(frames)  y == Dispatched(mode, 1)
<1>1. frames \in Seq(FrameSet) /\ n \in Nat /\ MaxFrames \in Nat
  BY RunnerAssumption DEF IInv, Kinds
<1>2. /\ y \in FrameSet /\ y.mode = mode /\ y.state \in {"running", "rejected"}
      /\ y.by = 0 /\ ~y.called /\ ~y.misused /\ y.awaits = 0 /\ y.down = {}
  BY DispatchedIsFrame, RunnerAssumption DEF IInv
<1>. HIDE DEF y
<1>3. frames' = Append(frames, y) /\ UNCHANGED <<cache, disposed, now>> BY DEF Pipe, y
<1>4. /\ frames' \in Seq(FrameSet) /\ Len(frames') = n + 1
      /\ \A i \in 1..n : frames'[i] = frames[i]
      /\ frames'[n + 1] = y
  BY <1>1, <1>2, <1>3, Appended
<1>5. ASSUME NEW i \in 1..n PROVE Sound(frames'[i], i, n + 1) /\ Value(frames', i)
  <2>1. Sound(frames[i], i, n) BY DEF IInv, Kinds, Frames
  <2>2. Sound(frames[i], i, n + 1) BY <1>1, <2>1, SoundGrows
  <2>3. Value(frames, i) BY DEF IInv, ValuesComeFromBelow, Value, Frames, Piped
  <2>4. frames[i].down \subseteq 1..n BY <2>1, <1>1 DEF Sound
  <2>. QED BY <1>4, <2>2, <2>3, <2>4 DEF Value
<1>6. Sound(y, n + 1, n + 1) /\ Value(frames', n + 1)
  BY <1>1, <1>2, <1>4 DEF Sound, Line, Value
<1>7. \A i \in 1..Len(frames') : Sound(frames'[i], i, Len(frames')) /\ Value(frames', i)
  BY <1>1, <1>4, <1>5, <1>6
<1>8. /\ \A i \in Frames : ~Piped(i) => frames'[i] = frames[i]
      /\ \A i \in Frames : Piped(i) => frames'[i].mode \in PipeModes
      /\ \A i \in 1..Len(frames') : i \notin Frames => frames'[i].mode \in PipeModes
  BY <1>1, <1>2, <1>4 DEF Frames, Piped
<1>9. Len(frames) <= Len(frames') /\ Len(frames') <= MaxFrames BY <1>1, <1>4
<1>. QED BY <1>3, <1>4, <1>7, <1>8, <1>9, PipesKeepOut

\* A handler calls its continuation, for the first time or once more.
LEMMA CallNextKeeps ==
  ASSUME IInv, NEW f \in Frames, CallNext(f)
  PROVE  IInv'
<1>. DEFINE n == Len(frames)  fr == frames[f]
<1>1. fr \in FrameSet /\ Sound(fr, f, n) /\ n \in Nat /\ f \in 1..n BY Known
<1>2. Piped(f) /\ fr.at \in Chain /\ UNCHANGED <<cache, disposed, now>> BY DEF CallNext
<1>3. Value(frames, f) BY <1>1 DEF IInv, ValuesComeFromBelow, Value, Frames, Piped
<1>4. CASE fr.called
  <2>. DEFINE x == [fr EXCEPT !.misused = @ \/ fr.state = "running"]
  <2>1. frames' = [frames EXCEPT ![f] = x] BY <1>4 DEF CallNext
  <2>2. x \in FrameSet BY <1>1 DEF FrameSet
  <2>3. /\ x.mode = fr.mode /\ x.state = fr.state /\ x.by = fr.by /\ x.awaits = fr.awaits
        /\ x.down = fr.down /\ x.called = fr.called
        /\ x.misused => fr.misused \/ fr.state = "running"
    BY <1>1 DEF FrameSet
  <2>. HIDE DEF x
  <2>4. Sound(x, f, n) BY <1>1, <2>3 DEF Sound, Line
  <2>5. Value(frames', f)
    <3>1. frames'[f] = x /\ \A g \in 1..n : g # f => frames'[g] = frames[g]
      BY <1>1, <2>1, <2>2, Changed DEF IInv, Kinds
    <3>2. fr.down \subseteq (f + 1)..n BY <1>1 DEF Sound
    <3>. QED BY <1>1, <1>3, <2>3, <3>1, <3>2 DEF Value
  <2>. QED BY <1>2, <2>1, <2>2, <2>3, <2>4, <2>5, ChangeOne
<1>5. CASE ~fr.called
  <2>. DEFINE x == [fr EXCEPT !.called = TRUE, !.down = @ \cup {n + 1}]
              y == Dispatched(fr.mode, fr.at + 1)
  <2>1. frames' = [Append(frames, y) EXCEPT ![f] = x] /\ Len(frames) < MaxFrames
    <3>1. frames' = [Append(frames, y) EXCEPT ![f].called = TRUE, ![f].down = @ \cup {n + 1}]
      BY <1>5 DEF CallNext
    <3>2. Append(frames, y)[f] = fr BY <1>1 DEF IInv, Kinds
    <3>. QED BY <1>5, <3>1, <3>2 DEF CallNext
  <2>2. /\ y \in FrameSet /\ y.mode = fr.mode /\ y.state \in {"running", "rejected"}
        /\ y.by = 0 /\ ~y.called /\ ~y.misused /\ y.awaits = 0 /\ y.down = {}
    BY <1>2, DispatchedIsFrame, RunnerAssumption DEF IInv, Chain, Piped
  <2>3. x \in FrameSet
    <3>1. fr.down \cup {n + 1} \in SUBSET Nat BY <1>1 DEF FrameSet
    <3>. QED BY <1>1, <3>1, OneField
  <2>4. /\ x.mode = fr.mode /\ x.state = fr.state /\ x.by = fr.by /\ x.awaits = fr.awaits
        /\ x.down = fr.down \cup {n + 1} /\ x.called /\ x.misused = fr.misused
    BY <1>1 DEF FrameSet
  <2>. HIDE DEF x, y
  <2>5. Sound(x, f, n + 1)
    <3>1. Line(x)
      <4>1. CASE fr.awaits = 0
        <5>1. fr.down = {} BY <1>1, <1>5, <4>1 DEF Sound, Line
        <5>. QED BY <1>1, <2>4, <4>1, <5>1 DEF Line
      <4>2. CASE fr.awaits # 0
        <5>1. fr.down = {fr.awaits} BY <1>1, <1>5, <4>2 DEF Sound, Line
        <5>2. fr.awaits \in (f + 1)..n BY <1>1, <5>1 DEF Sound
        <5>3. x.down = {x.awaits, n + 1} /\ n + 1 > x.awaits /\ n + 1 \in Nat
          BY <1>1, <2>4, <5>1, <5>2
        <5>. QED BY <2>4, <4>2, <5>3 DEF Line
      <4>. QED BY <4>1, <4>2
    <3>2. Sound(fr, f, n + 1) BY <1>1, SoundGrows
    <3>. QED BY <1>1, <2>4, <3>1, <3>2 DEF Sound
  <2>6. y.mode \in PipeModes BY <1>2, <2>2 DEF Piped
  <2>7. /\ x.state # "fulfilled" \/ x.by = fr.by
        /\ x.state = fr.state \/ (x.state = "forwarding" /\ fr.state = "running")
        /\ x.state = "fulfilled" => x.awaits = fr.awaits /\ fr.down \subseteq x.down
    BY <2>4
  <2>. QED BY <1>2, <2>1, <2>2, <2>3, <2>4, <2>5, <2>6, <2>7, GrowOne
<1>. QED BY <1>4, <1>5

\* A handler of a pipe ends.
LEMMA PipeSettlesKeeps ==
  ASSUME IInv, NEW f \in Frames, NEW o \in Outcomes, PipeSettles(f, o)
  PROVE  IInv'
<1>. DEFINE n == Len(frames)  fr == frames[f]
<1>1. fr \in FrameSet /\ Sound(fr, f, n) /\ n \in Nat /\ f \in 1..n /\ \A m : Clock(m) \in Nat
  BY Known
<1>2. Piped(f) /\ fr.state = "running" /\ fr.by = 0 /\ fr.awaits = 0
      /\ UNCHANGED <<cache, disposed, now>>
  BY <1>1 DEF PipeSettles, Runs, Sound
<1>3. ASSUME NEW v \in {"fatal", "misused"}, frames' = [frames EXCEPT ![f] = Rejected(fr, v)]
      PROVE  IInv'
  <2>. DEFINE x == Rejected(fr, v)
  <2>1. x \in FrameSet BY <1>1, SettledIsFrame
  <2>2. /\ x.state = "rejected" /\ x.by = fr.by /\ x.mode = fr.mode /\ x.down = fr.down
        /\ x.called = fr.called /\ x.awaits = fr.awaits
    BY <1>1, Fields
  <2>3. frames' = [frames EXCEPT ![f] = x] BY <1>3
  <2>. HIDE DEF x
  <2>4. Sound(x, f, n) BY <1>1, <2>2 DEF Sound, Line
  <2>5. frames'[f] = x BY <1>1, <2>1, <2>3, Changed DEF IInv, Kinds
  <2>6. Value(frames', f) BY <2>2, <2>5 DEF Value
  <2>. QED BY <1>2, <2>1, <2>2, <2>3, <2>4, <2>6, ChangeOne
<1>4. CASE o = "value" /\ ~fr.misused
  <2>. DEFINE x == Fulfilled(fr, f)
  <2>1. x \in FrameSet BY <1>1, SettledIsFrame
  <2>2. /\ x.state = "fulfilled" /\ x.by = f /\ x.mode = fr.mode /\ x.down = fr.down
        /\ x.called = fr.called /\ x.awaits = fr.awaits /\ x.misused = fr.misused
    BY <1>1, Fields
  <2>3. frames' = [frames EXCEPT ![f] = x] BY <1>4 DEF PipeSettles
  <2>. HIDE DEF x
  <2>4. Sound(x, f, n) BY <1>1, <1>4, <2>2 DEF Sound, Line
  <2>5. frames'[f] = x BY <1>1, <2>1, <2>3, Changed DEF IInv, Kinds
  <2>6. Value(frames', f) BY <2>2, <2>5 DEF Value
  <2>. QED BY <1>2, <2>1, <2>2, <2>3, <2>4, <2>6, ChangeOne
<1>5. CASE o = "recoverable" /\ ~fr.misused /\ fr.called
  <2>1. PICK g \in fr.down : frames' = [frames EXCEPT ![f].state = "forwarding", ![f].awaits = g]
    BY <1>5 DEF PipeSettles, Skip
  <2>. DEFINE x == [fr EXCEPT !.state = "forwarding", !.awaits = g]
  <2>2. frames' = [frames EXCEPT ![f] = x] BY <2>1
  <2>3. g \in (f + 1)..n /\ g # 0 /\ g \in Nat BY <1>1 DEF Sound
  <2>4. x \in FrameSet BY <1>1, <2>3, OneField
  <2>5. /\ x.state = "forwarding" /\ x.by = fr.by /\ x.mode = fr.mode /\ x.down = fr.down
        /\ x.called = fr.called /\ x.awaits = g /\ x.misused = fr.misused
    BY <1>1 DEF FrameSet
  <2>. HIDE DEF x
  <2>6. x.down = {g} BY <1>1, <1>2, <1>5, <2>5 DEF Sound, Line
  <2>7. Sound(x, f, n) BY <1>1, <1>2, <1>5, <2>3, <2>5, <2>6 DEF Sound, Line
  <2>8. frames'[f] = x BY <1>1, <2>2, <2>4, Changed DEF IInv, Kinds
  <2>9. Value(frames', f) BY <2>5, <2>8 DEF Value
  <2>. QED BY <1>2, <2>2, <2>4, <2>5, <2>7, <2>9, ChangeOne
<1>6. CASE o = "recoverable" /\ ~fr.misused /\ ~fr.called
  <2>. DEFINE x == [fr EXCEPT !.state = "forwarding", !.awaits = n + 1, !.down = @ \cup {n + 1}]
              y == Dispatched(fr.mode, fr.at + 1)
  <2>1. fr.at \in Chain /\ Len(frames) < MaxFrames
        /\ frames' = [Append(frames, y) EXCEPT ![f].state = "forwarding", ![f].awaits = n + 1,
                                               ![f].down = @ \cup {n + 1}]
    BY <1>6 DEF PipeSettles, Skip
  <2>2. frames' = [Append(frames, y) EXCEPT ![f] = x]
    <3>1. Append(frames, y)[f] = fr BY <1>1 DEF IInv, Kinds
    <3>. QED BY <2>1, <3>1
  <2>3. /\ y \in FrameSet /\ y.mode = fr.mode /\ y.state \in {"running", "rejected"}
        /\ y.by = 0 /\ ~y.called /\ ~y.misused /\ y.awaits = 0 /\ y.down = {}
    <3>1. fr.mode \in PipeModes /\ fr.at + 1 \in 1..Length + 1
      BY <1>2, <2>1, RunnerAssumption DEF Chain, Piped
    <3>. QED BY <3>1, DispatchedIsFrame DEF IInv
  <2>4. x \in FrameSet
    <3>1. fr.down \cup {n + 1} \in SUBSET Nat /\ n + 1 \in Nat BY <1>1 DEF FrameSet
    <3>. QED BY <1>1, <3>1, OneField
  <2>5. /\ x.mode = fr.mode /\ x.state = "forwarding" /\ x.by = fr.by /\ x.awaits = n + 1
        /\ x.down = fr.down \cup {n + 1} /\ x.called = fr.called /\ x.misused = fr.misused
    BY <1>1 DEF FrameSet
  <2>. HIDE DEF x, y
  <2>6. fr.down = {} BY <1>1, <1>2, <1>6 DEF Sound, Line
  <2>7. x.down = {n + 1} /\ n + 1 # 0 BY <1>1, <2>5, <2>6
  <2>8. Line(x) BY <2>5, <2>7 DEF Line
  <2>9. Sound(x, f, n + 1) BY <1>1, <1>2, <1>6, <2>5, <2>7, <2>8 DEF Sound
  <2>10. y.mode \in PipeModes BY <1>2, <2>3 DEF Piped
  <2>. QED BY <1>2, <2>1, <2>2, <2>3, <2>4, <2>5, <2>9, <2>10, GrowOne
<1>7. CASE o = "fatal"
  BY <1>3, <1>7 DEF PipeSettles
<1>8. CASE o # "fatal" /\ fr.misused
  BY <1>3, <1>8 DEF PipeSettles
<1>. QED BY <1>4, <1>5, <1>6, <1>7, <1>8 DEF Outcomes

\* A handler that ended takes over the answer of its continuation.
LEMMA ForwardKeeps ==
  ASSUME IInv, NEW f \in Frames, Forward(f)
  PROVE  IInv'
<1>. DEFINE n == Len(frames)  fr == frames[f]  g == fr.awaits  x == Forwarded(f, g)
<1>1. fr \in FrameSet /\ Sound(fr, f, n) /\ n \in Nat /\ f \in 1..n /\ \A m : Clock(m) \in Nat
  BY Known
<1>2. /\ fr.state = "forwarding" /\ fr.by = 0 /\ UNCHANGED <<cache, disposed, now>>
      /\ frames' = [frames EXCEPT ![f] = x] /\ ~fr.misused
  BY <1>1 DEF Forward, Sound
<1>3. Piped(f) BY <1>2 DEF IInv, Triggers, Answered
<1>4. g \in fr.down /\ g \in (f + 1)..n /\ g \in Frames
  <2>1. g \in fr.down BY <1>1, <1>2, LineIsOnce DEF Sound
  <2>. QED BY <1>1, <2>1 DEF Sound, Frames
<1>5. frames[g] \in FrameSet /\ frames[g].by \in 0..n BY <1>1, <1>4, Known DEF Sound
<1>6. CASE frames[g].state = "fulfilled"
  <2>1. x = Fulfilled(fr, frames[g].by) BY <1>6 DEF Forwarded
  <2>2. x \in FrameSet BY <1>1, <1>5, <2>1, SettledIsFrame
  <2>3. /\ x.state = "fulfilled" /\ x.by = frames[g].by /\ x.mode = fr.mode /\ x.down = fr.down
        /\ x.called = fr.called /\ x.awaits = g /\ x.misused = fr.misused
    BY <1>1, <1>5, <2>1, Fields
  <2>. HIDE DEF x
  <2>4. Sound(x, f, n) BY <1>1, <1>2, <1>5, <2>3 DEF Sound, Line
  <2>5. frames'[f] = x /\ frames'[g] = frames[g]
    BY <1>1, <1>2, <1>4, <2>2, Changed DEF IInv, Kinds
  <2>6. Value(frames', f) BY <1>4, <1>6, <2>3, <2>5 DEF Value
  <2>. QED BY <1>2, <1>3, <2>2, <2>3, <2>4, <2>6, ChangeOne
<1>7. CASE frames[g].state # "fulfilled"
  <2>1. x = Rejected(fr, "downstream") BY <1>7 DEF Forwarded
  <2>2. x \in FrameSet BY <1>1, <2>1, SettledIsFrame
  <2>3. /\ x.state = "rejected" /\ x.by = fr.by /\ x.mode = fr.mode /\ x.down = fr.down
        /\ x.called = fr.called /\ x.awaits = g /\ x.misused = fr.misused
    BY <1>1, <2>1, Fields
  <2>. HIDE DEF x
  <2>4. Sound(x, f, n) BY <1>1, <1>2, <2>3 DEF Sound, Line
  <2>5. frames'[f] = x BY <1>1, <1>2, <2>2, Changed DEF IInv, Kinds
  <2>6. Value(frames', f) BY <2>3, <2>5 DEF Value
  <2>. QED BY <1>2, <1>3, <2>2, <2>3, <2>4, <2>6, ChangeOne
<1>. QED BY <1>6, <1>7

-----------------------------------------------------------------------------
(* Steps of triggers *)

\* What the parts of a frame that is not piped were made of.
LEMMA FreshTrigger ==
  ASSUME IInv, NEW mode \in TriggerModes, NEW r \in Chain, NEW key \in Keys, NEW ttl \in Ttls
  PROVE  LET x == Fresh(mode, r, key, ttl)
         IN /\ x \in FrameSet /\ x.mode = mode /\ x.at = r /\ x.key = key /\ x.ttl = ttl
            /\ x.began = now /\ x.ended = now /\ Clock(x.mode) = now /\ x.state = "running"
            /\ x.by = 0 /\ ~x.called /\ ~x.misused /\ x.awaits = 0 /\ x.down = {}
<1>1. r \in 1..Length + 1 BY RunnerAssumption DEF Chain
<1>2. Fresh(mode, r, key, ttl) \in FrameSet BY <1>1, FreshIsFrame DEF IInv
<1>. QED BY <1>2 DEF Fresh, Clock

\* The new frame z of a trigger was refused, hit the cache or missed it.
LEMMA TriggerGrows ==
  ASSUME IInv, NEW mode \in TriggerModes, NEW r \in Chain, NEW key \in Keys,
         NEW z \in FrameSet, Len(frames) < MaxFrames,
         frames' = Append(frames, z), UNCHANGED <<disposed, now>>,
         z.mode = mode, z.at = r, z.key = key, z.began = now, z.ended = now,
         z.state # "forwarding", ~z.called, ~z.misused, z.awaits = 0, z.down = {},
         z.state = "running" => z.by = 0,
         z.by # 0 =>
           /\ z.by = cache[r][key].by
           /\ frames[z.by].ttl = Never \/ now < frames[z.by].ended + frames[z.by].ttl,
         cache' = cache \/ cache' = [cache EXCEPT ![r][key] = Empty]
  PROVE  IInv'
<1>. DEFINE n == Len(frames)
<1>1. frames \in Seq(FrameSet) /\ n \in Nat /\ MaxFrames \in Nat
  BY RunnerAssumption DEF IInv, Kinds
<1>2. /\ frames' \in Seq(FrameSet) /\ Len(frames') = n + 1
      /\ \A i \in 1..n : frames'[i] = frames[i]
      /\ frames'[n + 1] = z
  BY <1>1, Appended
<1>3. z.by # 0 => /\ z.by \in 1..n /\ frames[z.by].mode \notin PipeModes
                 /\ frames[z.by].at = r /\ frames[z.by].key = key /\ frames[z.by].by = z.by
  <2>1. Kept(r, key) BY DEF IInv, Triggers
  <2>. QED BY <2>1 DEF Kept, Frames, Piped
<1>4. z.by \in 0..n BY <1>1, <1>3 DEF FrameSet
<1>5. z.mode \notin PipeModes BY DEF PipeModes, TriggerModes
<1>6. \A i \in 1..n : Sound(frames[i], i, n) BY DEF IInv, Kinds, Frames
<1>7. Kinds'
  <2>1. \A i \in 1..n : Sound(frames'[i], i, n + 1)
    BY <1>1, <1>2, <1>6, SoundGrows
  <2>2. Sound(z, n + 1, n + 1) BY <1>1, <1>4 DEF Sound, Line
  <2>3. cache' \in [Chain -> [Keys -> Entry]]
    <3>1. cache \in [Chain -> [Keys -> Entry]] BY DEF IInv, Kinds
    <3>2. Empty \in Entry BY <1>1 DEF Empty, Entry, Never
    <3>. QED BY <3>1, <3>2
  <2>4. \A i \in 1..Len(frames') : Sound(frames'[i], i, Len(frames'))
    BY <1>1, <1>2, <2>1, <2>2
  <2>. QED BY <1>1, <1>2, <2>3, <2>4 DEF IInv, Kinds, Frames
<1>8. ASSUME NEW f \in Frames', ~Piped(f)' PROVE Answered(f)'
  <2>1. CASE f = n + 1
    <3>1. frames'[f] = z BY <1>2, <2>1
    <3>2. z.by # 0 => frames'[z.by] = frames[z.by] BY <1>2, <1>3
    <3>3. now' = now OBVIOUS
    <3>4. now \in Nat BY DEF IInv, Kinds
    <3>5. CASE z.by = 0 BY <3>1, <3>3, <3>4, <3>5 DEF Answered, Piped
    <3>6. CASE z.by # 0 BY <1>3, <3>1, <3>2, <3>3, <3>4, <3>6 DEF Answered, Piped
    <3>. QED BY <3>5, <3>6
  <2>2. CASE f \in 1..n
    <3>1. frames'[f] = frames[f] /\ Answered(f)
      BY <1>2, <1>8, <2>2 DEF IInv, Triggers, Frames, Piped
    <3>2. frames[f].by # 0 => frames'[frames[f].by] = frames[frames[f].by]
      BY <1>2, <1>6, <2>2 DEF Sound
    <3>. QED BY <3>1, <3>2 DEF Answered, Piped
  <2>. QED BY <1>1, <1>2, <2>1, <2>2 DEF Frames
<1>9. ASSUME NEW q \in Chain, NEW k \in Keys
      PROVE  cache'[q][k] = cache[q][k] \/ cache'[q][k].by = 0
  <2>1. cache \in [Chain -> [Keys -> Entry]] BY DEF IInv, Kinds
  <2>. QED BY <2>1 DEF Empty
<1>10. ASSUME NEW q \in Chain, NEW k \in Keys PROVE Kept(q, k)'
  <2>1. Kept(q, k) BY DEF IInv, Triggers
  <2>2. CASE cache'[q][k].by = 0 BY <2>2 DEF Kept
  <2>3. CASE cache'[q][k].by # 0 /\ cache'[q][k] = cache[q][k]
    <3>1. frames'[cache[q][k].by] = frames[cache[q][k].by] /\ cache[q][k].by \in 1..n
      BY <1>2, <2>1, <2>3 DEF Kept, Frames
    <3>. QED BY <1>1, <1>2, <2>1, <2>3, <3>1 DEF Kept, Frames, Piped
  <2>. QED BY <1>9, <2>2, <2>3
<1>11. LastAnswerIsKept'
  <2>. SUFFICES ASSUME NEW q \in Chain \ disposed', NEW k \in Keys, cache'[q][k].by # 0,
                       NEW f \in Frames', ~Piped(f)', frames'[f].at = q, frames'[f].key = k,
                       frames'[f].by = f
       PROVE frames'[f].ended <= frames'[cache'[q][k].by].ended
    BY DEF LastAnswerIsKept
  <2>1. f \in 1..n BY <1>1, <1>2, <1>4 DEF Frames
  <2>2. Kept(q, k) /\ cache'[q][k] = cache[q][k] BY <1>9 DEF IInv, Triggers
  <2>3. frames'[cache'[q][k].by] = frames[cache[q][k].by] BY <1>2, <2>2 DEF Kept, Frames
  <2>4. LastAnswerIsKept BY DEF IInv, Triggers
  <2>. QED BY <1>2, <2>1, <2>2, <2>3, <2>4 DEF LastAnswerIsKept, Frames, Piped
<1>12. ValuesComeFromBelow'
  <2>1. ASSUME NEW i \in 1..n PROVE Value(frames', i)
    <3>1. Value(frames, i) BY DEF IInv, ValuesComeFromBelow, Value, Frames, Piped
    <3>2. frames[i].down \subseteq 1..n BY <1>1, <1>6 DEF Sound
    <3>. QED BY <1>2, <3>1, <3>2 DEF Value
  <2>2. Value(frames', n + 1) BY <1>2, <1>5 DEF Value
  <2>3. \A i \in 1..Len(frames') : Value(frames', i) BY <1>1, <1>2, <2>1, <2>2
  <2>. QED BY <2>3 DEF ValuesComeFromBelow, Value, Frames, Piped
<1>. QED BY <1>7, <1>8, <1>10, <1>11, <1>12 DEF IInv, Triggers

\* trigger() hits the cache, or runs its handler.
LEMMA TriggerKeeps ==
  ASSUME IInv, NEW mode \in TriggerModes, NEW r \in Chain, NEW key \in Keys, NEW ttl \in Ttls,
         Len(frames) < MaxFrames, Trigger(mode, r, key, ttl)
  PROVE  IInv'
<1>. DEFINE x == Fresh(mode, r, key, ttl)  entry == cache[r][key]
<1>1. /\ x \in FrameSet /\ x.mode = mode /\ x.at = r /\ x.key = key /\ x.ttl = ttl
      /\ x.began = now /\ x.ended = now /\ Clock(x.mode) = now /\ x.state = "running"
      /\ x.by = 0 /\ ~x.called /\ ~x.misused /\ x.awaits = 0 /\ x.down = {}
  BY FreshTrigger
<1>2. now \in Nat /\ UNCHANGED <<disposed, now>> BY DEF Trigger, IInv, Kinds
<1>3. CASE r \in disposed
  <2>. DEFINE z == Rejected(x, "disposed")
  <2>1. frames' = Append(frames, z) /\ cache' = cache BY <1>3 DEF Trigger
  <2>2. z \in FrameSet BY <1>1, <1>2, SettledIsFrame
  <2>3. /\ z.state = "rejected" /\ z.by = 0 /\ z.mode = mode /\ z.at = r /\ z.key = key
        /\ z.began = now /\ ~z.called /\ ~z.misused /\ z.down = {} /\ z.awaits = 0 /\ z.ended = now
    BY <1>1, Fields
  <2>. HIDE DEF z
  <2>. QED BY <1>2, <2>1, <2>2, <2>3, TriggerGrows
<1>4. CASE r \notin disposed /\ Good(entry)
  <2>. DEFINE z == Fulfilled(x, entry.by)
  <2>1. frames' = Append(frames, z) /\ cache' = cache BY <1>4 DEF Trigger
  <2>2. Kept(r, key) BY DEF IInv, Triggers
  <2>3. entry.by \in Frames /\ entry.by \in Nat
    BY <1>4, <2>2 DEF Kept, Good, Frames
  <2>4. z \in FrameSet BY <1>1, <1>2, <2>3, SettledIsFrame
  <2>5. /\ z.state = "fulfilled" /\ z.by = entry.by /\ z.mode = mode /\ z.at = r /\ z.key = key
        /\ z.began = now /\ ~z.called /\ ~z.misused /\ z.down = {} /\ z.awaits = 0 /\ z.ended = now
    BY <1>1, <2>3, Fields
  <2>. HIDE DEF z
  <2>6. frames[z.by].ttl = Never \/ now < frames[z.by].ended + frames[z.by].ttl
    <3>1. frames[entry.by] \in FrameSet BY <2>3, Known
    <3>2. frames[entry.by].ttl \in Ttls \cup {Never} /\ frames[entry.by].ended \in Nat
      BY <3>1 DEF FrameSet
    <3>3. /\ entry.by # 0 /\ (entry.until = Never \/ entry.until > now)
          /\ entry.until = IF frames[entry.by].ttl = Never THEN Never
                           ELSE frames[entry.by].ended + frames[entry.by].ttl
      BY <1>4, <2>2 DEF Kept, Good
    <3>4. frames[entry.by].ttl \in Nat \cup {Never} BY <3>2, RunnerAssumption
    <3>5. Never \in Int /\ Never < 0 BY DEF Never
    <3>. HIDE DEF entry
    <3>6. CASE frames[entry.by].ttl = Never BY <2>5, <3>6
    <3>7. CASE frames[entry.by].ttl \in Nat /\ frames[entry.by].ttl # Never
      <4>1. entry.until = frames[entry.by].ended + frames[entry.by].ttl BY <3>3, <3>7
      <4>2. entry.until > now BY <3>2, <3>3, <3>5, <3>7, <4>1
      <4>. QED BY <2>5, <4>1, <4>2
    <3>. QED BY <3>4, <3>6, <3>7
  <2>. QED BY <1>2, <2>1, <2>4, <2>5, <2>6, TriggerGrows
<1>5. CASE r \notin disposed /\ ~Good(entry)
  <2>1. frames' = Append(frames, x) /\ cache' = [cache EXCEPT ![r][key] = Empty]
    BY <1>5 DEF Trigger
  <2>. HIDE DEF x
  <2>. QED BY <1>1, <1>2, <2>1, TriggerGrows
<1>. QED BY <1>3, <1>4, <1>5

\* The handler of a trigger ends, and its answer may go into the cache.
LEMMA TriggerSettlesKeeps ==
  ASSUME IInv, NEW f \in Frames, NEW o \in Outcomes, TriggerSettles(f, o)
  PROVE  IInv'
<1>. DEFINE n == Len(frames)  fr == frames[f]
            x == CASE o = "value" -> Fulfilled(fr, f)
                   [] o = "recoverable" -> Fulfilled(fr, 0)
                   [] o = "fatal" -> Rejected(fr, "fatal")
<1>1. fr \in FrameSet /\ Sound(fr, f, n) /\ n \in Nat /\ f \in 1..n /\ \A m : Clock(m) \in Nat
  BY Known
<1>2. /\ ~Piped(f) /\ fr.state = "running" /\ fr.by = 0 /\ fr.awaits = 0
      /\ disposed' = disposed /\ now' = now /\ now \in Nat
      /\ frames' = [frames EXCEPT ![f] = x]
  BY <1>1 DEF TriggerSettles, Runs, Sound, IInv, Kinds
<1>3. Answered(f) BY <1>2 DEF IInv, Triggers
<1>4. Clock(fr.mode) = now BY <1>1, <1>2 DEF Clock, FrameSet, Piped
<1>5. x \in FrameSet
  <2>1. /\ Fulfilled(fr, f) \in FrameSet /\ Fulfilled(fr, 0) \in FrameSet
        /\ Rejected(fr, "fatal") \in FrameSet
    <3>1. f \in Nat /\ 0 \in Nat /\ Clock(fr.mode) \in Nat BY <1>1
    <3>. QED BY <1>1, <3>1, SettledIsFrame
  <2>. QED BY <2>1 DEF Outcomes
<1>6. /\ x.state \in {"fulfilled", "rejected"} /\ x.mode = fr.mode /\ x.at = fr.at /\ x.key = fr.key
      /\ x.ttl = fr.ttl /\ x.began = fr.began /\ x.called = fr.called /\ x.misused = fr.misused
      /\ x.down = fr.down /\ x.awaits = fr.awaits /\ x.ended = now
      /\ x.by = IF o = "value" THEN f ELSE 0
  <2>1. CASE o = "value" BY <1>1, <1>4, <2>1, Fields
  <2>2. CASE o = "recoverable" BY <1>1, <1>4, <2>2, Fields
  <2>3. CASE o = "fatal" BY <1>1, <1>2, <1>4, <2>3, Fields
  <2>. QED BY <2>1, <2>2, <2>3 DEF Outcomes
<1>. HIDE DEF x
<1>7. frames \in Seq(FrameSet) /\ \A i \in 1..n : Sound(frames[i], i, n)
  BY DEF IInv, Kinds, Frames
<1>8. /\ frames' \in Seq(FrameSet) /\ Len(frames') = n
      /\ \A i \in 1..n : frames'[i] = IF i = f THEN x ELSE frames[i]
  BY <1>1, <1>2, <1>5, <1>7, Changed
<1>9. f # 0 /\ fr.at \in Chain /\ fr.key \in Keys /\ ~fr.misused /\ fr.began <= now
  BY <1>1, <1>2, <1>3 DEF Answered
<1>10. cache \in [Chain -> [Keys -> Entry]] /\ n <= MaxFrames BY DEF IInv, Kinds
<1>. DEFINE until == IF fr.ttl = Never THEN Never ELSE now + fr.ttl
<1>11. /\ cache' \in [Chain -> [Keys -> Entry]]
       /\ \A q \in Chain, k \in Keys :
            IF o = "value" /\ q = fr.at /\ k = fr.key
            THEN cache'[q][k] = [by |-> f, until |-> until]
            ELSE cache'[q][k] = cache[q][k]
  <2>1. [by |-> f, until |-> until] \in Entry
    <3>1. until \in Int
      <4>1. fr.ttl \in Ttls \cup {Never} BY <1>1 DEF FrameSet
      <4>2. Ttls \subseteq Nat \cup {Never} BY RunnerAssumption
      <4>3. Never \in Int BY DEF Never
      <4>4. fr.ttl \in Nat \cup {Never} BY <4>1, <4>2
      <4>5. fr.ttl \in Int BY <4>3, <4>4
      <4>. QED BY <1>2, <4>3, <4>5
    <3>2. f \in 0..MaxFrames BY <1>1, <1>10, RunnerAssumption
    <3>. QED BY <3>1, <3>2 DEF Entry
  <2>2. CASE o = "value"
    <3>1. cache' = [cache EXCEPT ![fr.at][fr.key] = [by |-> f, until |-> until]]
      BY <1>2, <2>2 DEF TriggerSettles, Store
    <3>. HIDE DEF until
    <3>. QED BY <1>9, <1>10, <2>1, <2>2, <3>1
  <2>3. CASE o # "value"
    <3>1. cache' = cache BY <2>3 DEF TriggerSettles
    <3>. QED BY <1>10, <2>3, <3>1
  <2>. QED BY <2>2, <2>3
<1>12. Kinds'
  <2>1. Sound(x, f, n)
    BY <1>1, <1>2, <1>6, <1>9 DEF Sound, Line
  <2>2. \A i \in 1..Len(frames') : Sound(frames'[i], i, Len(frames'))
    BY <1>7, <1>8, <2>1
  <2>. QED BY <1>2, <1>8, <1>10, <1>11, <2>2 DEF IInv, Kinds, Frames
\* Nobody relies on a frame that runs.
<1>13. \A i \in 1..n : i # f /\ ~Piped(i) => frames[i].by # f
  BY <1>2, <1>7 DEF IInv, Triggers, Answered, Frames
<1>14. ASSUME NEW i \in Frames', ~Piped(i)' PROVE Answered(i)'
  <2>1. CASE i = f
    BY <1>2, <1>3, <1>6, <1>8, <1>9, <2>1 DEF Answered, Frames, Piped
  <2>2. CASE i # f
    <3>1. frames'[i] = frames[i] /\ Answered(i) /\ frames[i].by # f /\ i \in 1..n
      BY <1>8, <1>13, <1>14, <2>2 DEF IInv, Triggers, Frames, Piped
    <3>2. frames[i].by # 0 => frames'[frames[i].by] = frames[frames[i].by]
      BY <1>7, <1>8, <3>1 DEF Sound
    <3>. QED BY <1>2, <3>1, <3>2 DEF Answered, Piped
  <2>. QED BY <2>1, <2>2
<1>15. ASSUME NEW q \in Chain, NEW k \in Keys PROVE Kept(q, k)'
  <2>1. CASE o = "value" /\ q = fr.at /\ k = fr.key
    <3>1. cache'[q][k].by = f /\ cache'[q][k].until = until BY <1>11, <2>1
    <3>. QED BY <1>1, <1>2, <1>6, <1>8, <2>1, <3>1 DEF Kept, Frames, Piped
  <2>2. CASE ~(o = "value" /\ q = fr.at /\ k = fr.key)
    <3>1. cache'[q][k] = cache[q][k] /\ Kept(q, k) BY <1>11, <2>2 DEF IInv, Triggers
    <3>2. cache[q][k].by # 0 =>
            cache[q][k].by # f /\ frames'[cache[q][k].by] = frames[cache[q][k].by]
      BY <1>2, <1>8, <3>1 DEF Kept, Frames
    <3>. QED BY <1>8, <3>1, <3>2 DEF Kept, Frames, Piped
  <2>. QED BY <2>1, <2>2
<1>16. LastAnswerIsKept'
  <2>. SUFFICES ASSUME NEW q \in Chain \ disposed', NEW k \in Keys, cache'[q][k].by # 0,
                       NEW i \in Frames', ~Piped(i)', frames'[i].at = q, frames'[i].key = k,
                       frames'[i].by = i
       PROVE frames'[i].ended <= frames'[cache'[q][k].by].ended
    BY DEF LastAnswerIsKept
  <2>1. i \in 1..n BY <1>8 DEF Frames
  <2>2. CASE o = "value" /\ q = fr.at /\ k = fr.key
    <3>1. frames'[cache'[q][k].by].ended = now BY <1>1, <1>6, <1>8, <1>11, <2>2
    <3>2. frames'[i].ended <= now BY <1>2, <1>14 DEF Answered
    <3>. QED BY <3>1, <3>2
  <2>3. CASE ~(o = "value" /\ q = fr.at /\ k = fr.key)
    <3>1. cache'[q][k] = cache[q][k] /\ Kept(q, k) BY <1>11, <2>3 DEF IInv, Triggers
    <3>2. frames'[cache[q][k].by] = frames[cache[q][k].by]
      BY <1>2, <1>8, <3>1 DEF Kept, Frames
    <3>3. i # f BY <1>6, <1>8, <1>9, <2>1, <2>3
    <3>4. LastAnswerIsKept BY DEF IInv, Triggers
    <3>. QED BY <1>2, <1>8, <2>1, <3>1, <3>2, <3>3, <3>4 DEF LastAnswerIsKept, Frames, Piped
  <2>. QED BY <2>2, <2>3
<1>17. ValuesComeFromBelow'
  <2>1. ASSUME NEW i \in 1..n PROVE Value(frames', i)
    <3>1. CASE i = f BY <1>2, <1>6, <1>8, <3>1 DEF Value, Piped
    <3>2. CASE i # f
      <4>1. Value(frames, i) BY DEF IInv, ValuesComeFromBelow, Value, Frames, Piped
      <4>2. frames[i].down \subseteq 1..n BY <1>1, <1>7 DEF Sound
      <4>. QED BY <1>2, <1>8, <3>2, <4>1, <4>2 DEF Value
    <3>. QED BY <3>1, <3>2
  <2>2. \A i \in 1..Len(frames') : Value(frames', i) BY <1>8, <2>1
  <2>. QED BY <2>2 DEF ValuesComeFromBelow, Value, Frames, Piped
<1>. QED BY <1>12, <1>14, <1>15, <1>16, <1>17 DEF IInv, Triggers

-----------------------------------------------------------------------------
(* The other steps, and the theorems *)

\* A runner is disposed and its cache emptied.
LEMMA DisposeKeeps ==
  ASSUME IInv, NEW r \in Chain, Dispose(r)
  PROVE  IInv'
<1>1. /\ frames' = frames /\ now' = now /\ disposed' = disposed \cup {r}
      /\ cache' = [cache EXCEPT ![r] = [k \in Keys |-> Empty]]
  BY DEF Dispose
<1>2. Empty \in Entry /\ Empty.by = 0 BY RunnerAssumption DEF Empty, Entry, Never
<1>3. cache \in [Chain -> [Keys -> Entry]] BY DEF IInv, Kinds
<1>4. cache' \in [Chain -> [Keys -> Entry]] BY <1>1, <1>2, <1>3
<1>5. \A q \in Chain, k \in Keys :
        IF q = r THEN cache'[q][k].by = 0 ELSE cache'[q][k] = cache[q][k]
  BY <1>1, <1>2, <1>3
<1>6. Kinds' BY <1>1, <1>4 DEF IInv, Kinds, Sound, Line, Frames
<1>7. \A f \in Frames' : ~Piped(f)' => Answered(f)'
  BY <1>1 DEF IInv, Triggers, Answered, Frames, Piped
<1>8. \A q \in Chain, k \in Keys : Kept(q, k)'
  BY <1>1, <1>5 DEF IInv, Triggers, Kept, Frames, Piped
<1>9. LastAnswerIsKept'
  BY <1>1, <1>5 DEF IInv, Triggers, LastAnswerIsKept, Frames, Piped
<1>10. ValuesComeFromBelow'
  BY <1>1 DEF IInv, ValuesComeFromBelow, Frames, Piped
<1>. QED BY <1>6, <1>7, <1>8, <1>9, <1>10 DEF IInv, Triggers

\* Time passes: a hit that was fresh when it was answered stays so.
LEMMA TickKeeps == ASSUME IInv, Tick PROVE IInv'
<1>1. UNCHANGED <<frames, cache, disposed>> /\ now' = now + 1 /\ now \in Nat
  BY DEF Tick, IInv, Kinds
<1>2. Kinds' BY <1>1 DEF IInv, Kinds, Sound, Line, Frames
<1>3. ASSUME NEW f \in Frames', ~Piped(f)' PROVE Answered(f)'
  <2>1. frames[f] \in FrameSet BY <1>1, Known DEF Frames
  <2>2. frames[f].began \in Nat /\ frames[f].ended \in Nat BY <2>1 DEF FrameSet
  <2>3. Answered(f) BY <1>1, <1>3 DEF IInv, Triggers, Frames, Piped
  <2>. QED BY <1>1, <2>2, <2>3 DEF Answered, Piped
<1>4. \A q \in Chain, k \in Keys : Kept(q, k)'
  BY <1>1 DEF IInv, Triggers, Kept, Frames, Piped
<1>5. LastAnswerIsKept' /\ ValuesComeFromBelow'
  BY <1>1 DEF IInv, Triggers, LastAnswerIsKept, ValuesComeFromBelow, Frames, Piped
<1>. QED BY <1>2, <1>3, <1>4, <1>5 DEF IInv, Triggers

\* The invariant holds before the first call.
LEMMA InitHolds == Init => IInv
<1>. SUFFICES ASSUME Init PROVE IInv OBVIOUS
<1>1. Len(frames) = 0 /\ frames \in Seq(FrameSet) /\ Frames = {} BY DEF Init, Frames
<1>2. Empty \in Entry /\ Empty.by = 0 BY RunnerAssumption DEF Empty, Entry, Never
<1>3. cache \in [Chain -> [Keys -> Entry]] BY <1>2 DEF Init
<1>4. \A q \in Chain, k \in Keys : cache[q][k].by = 0 BY <1>2 DEF Init
<1>5. Kinds BY <1>1, <1>3, RunnerAssumption DEF Kinds, Init
<1>. QED BY <1>1, <1>4, <1>5 DEF IInv, Triggers, Kept, LastAnswerIsKept, ValuesComeFromBelow

\* Every step keeps the invariant.
LEMMA StepKeeps == IInv /\ [Next]_vars => IInv'
<1>. SUFFICES ASSUME IInv, [Next]_vars PROVE IInv' OBVIOUS
<1>1. CASE Begin
  <2>1. ASSUME NEW mode \in Modes \cap PipeModes, Pipe(mode) PROVE IInv'
    BY <1>1, <2>1, PipeKeeps DEF Begin
  <2>2. ASSUME NEW mode \in Modes \cap TriggerModes, NEW r \in Chain, NEW key \in Keys,
               NEW ttl \in Ttls, Trigger(mode, r, key, ttl)
        PROVE IInv'
    BY <1>1, <2>2, TriggerKeeps DEF Begin
  <2>. QED BY <1>1, <2>1, <2>2 DEF Begin
<1>2. CASE Tick BY <1>2, TickKeeps
<1>3. ASSUME NEW r \in Chain, Dispose(r) PROVE IInv' BY <1>3, DisposeKeeps
<1>4. ASSUME NEW f \in Frames, CallNext(f) PROVE IInv' BY <1>4, CallNextKeeps
<1>5. ASSUME NEW f \in Frames, Settle(f) PROVE IInv'
  BY <1>5, TriggerSettlesKeeps, PipeSettlesKeeps DEF Settle
<1>6. ASSUME NEW f \in Frames, Forward(f) PROVE IInv' BY <1>6, ForwardKeeps
<1>7. CASE UNCHANGED vars
  BY <1>7 DEF vars, IInv, Kinds, Sound, Line, Frames, Triggers, Answered, Kept,
              LastAnswerIsKept, ValuesComeFromBelow, Piped
<1>. QED BY <1>1, <1>2, <1>3, <1>4, <1>5, <1>6, <1>7 DEF Next

\* The inductive invariant: frames are well formed, triggers were answered by
\* whom the cache says, and pipes by what is behind them.
THEOREM Inductive == Spec => []IInv
<1>1. Init => IInv BY InitHolds
<1>2. IInv /\ [Next]_vars => IInv' BY StepKeeps
<1>. QED BY <1>1, <1>2, PTL DEF Spec

\* What a trigger is answered without its handler came from a trigger of the
\* same runner and key, less than its time to live ago.
THEOREM CacheIsFresh == Spec => []HitsAreFresh
<1>1. IInv => HitsAreFresh BY Implies
<1>. QED BY <1>1, Inductive, PTL

\* What a living runner keeps is the answer of the trigger that finished last.
THEOREM LastWriterWins == Spec => []LastAnswerIsKept
<1>1. IInv => LastAnswerIsKept BY Implies
<1>. QED BY <1>1, Inductive, PTL

\* A pipe answers with the value of its own handler or of what it was forwarded to.
THEOREM PipesPassValuesUp == Spec => []ValuesComeFromBelow
<1>1. IInv => ValuesComeFromBelow BY Implies
<1>. QED BY <1>1, Inductive, PTL

\* The rest of a chain runs once, or a second time when a frame that was passed
\* over has its continuation called late; a continuation that is called twice
\* before its handler is over is an error (PluginContainer.pipe).
THEOREM ContinuationsRunOnce == Spec => []RestRunsOnce
<1>1. IInv => RestRunsOnce BY Implies
<1>. QED BY <1>1, Inductive, PTL
=============================================================================
