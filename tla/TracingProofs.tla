--------------------------- MODULE TracingProofs ---------------------------
(***************************************************************************)
(* Proofs about Tracing, for any number of runs, threads and LLM calls and *)
(* for a LangFuse that works, fails or does either: a trace holds its own  *)
(* run's LLM calls and says what its caller was told, a client shows the   *)
(* result of its question, and a suite that passed was answered.           *)
(*                                                                         *)
(* The inductive invariant has three parts: whose trace is current in a    *)
(* context (Traced), where a run's result is on its way out (Answered),    *)
(* and what the client and the evaluator make of it (Told).                *)
(***************************************************************************)
EXTENDS Tracing, TLAPS

\* The run is inside trace_context.
Live == {"node", "llm", "over"} \cup Suspended

\* The run is under way.
Busy(r) == pc[r] \notin {"new"} \cup Ended

\* What a block will restore has been started.
Known == \A r \in Run : previous[r] # None => trace[previous[r]] # "none"

\* In a context whose runs take turns one run is under way; the current trace is
\* its own, and none when it has left its block.
Contexts ==
    \A p \in Context \ mixed :
        /\ \A q, r \in Run : place[q] = p /\ place[r] = p /\ Busy(q) /\ Busy(r) => q = r
        /\ \A r \in Run : place[r] = p /\ pc[r] \in Live => previous[r] = None
        /\ current[p] # None =>
              \E r \in Run : /\ place[r] = p /\ pc[r] \in Live /\ kind[r] # "resume"
                             /\ current[p] = <<r, "run">>

\* A run that has not returned has neither a reply nor a trace that is done.
Unreturned ==
    \A r \in Run : pc[r] \in Live \cup {"new"} =>
        /\ reply[r] = None
        /\ trace[<<r, "run">>] # "ended"
        /\ status[<<r, "run">>] = "unset"

\* A run that has not begun has called nobody.
Begun == \A g \in generations : pc[g.by] # "new"

\* A thread has one run under way.
Threads == \A q, r \in Run : on[q] = on[r] /\ Busy(q) /\ Busy(r) => q = r

\* The two places that keep the last result of an event stream agree, but for the
\* snapshot on its way.
Relayed ==
    \A r \in Run :
        /\ pc[r] = "new" => held[r] = None
        /\ kind[r] = "astream" =>
              /\ pc[r] \in Suspended => last[r] = LastResult(held[r], channel[on[r]])
              /\ pc[r] \in {"node", "llm", "over", "closing", "done"} => last[r] = held[r]

\* A run that ended without a pause has its own result.
Own ==
    \A r \in Run : r \notin paused =>
        /\ Streaming(r) /\ pc[r] \in {"last", "over", "closing", "done"} =>
              last[r] \in [of: {r}, ok: BOOLEAN]
        /\ ~Streaming(r) /\ pc[r] = "over" => channel[on[r]] \in [of: {r}, ok: BOOLEAN]
        /\ reply[r] # None => reply[r] \in [of: {r}, ok: BOOLEAN]

\* The ways a run may be when it is done.
Replied ==
    \A r \in Run :
        /\ pc[r] = "closing" => kind[r] = "astream"
        /\ pc[r] \in {"judge", "score"} => kind[r] = "eval"
        /\ ~Streaming(r) /\ pc[r] \in {"judge", "score", "done"} => reply[r] # None

\* A result on its way to the client, or shown, is the one the stream ended with.
Sent ==
    \A r \in Run :
        /\ wire[r] \in Result => kind[r] = "astream" /\ pc[r] = "done" /\ wire[r] = held[r]
        /\ shown[r] \in Result => kind[r] = "astream" /\ pc[r] = "done" /\ shown[r] = held[r]

\* A case is judged by its reply and scored by its verdict.
Judged ==
    \A r \in Run :
        /\ verdict[r] # None => /\ kind[r] = "eval" /\ pc[r] \in {"score", "done"}
                                /\ verdict[r].valid = reply[r].ok
        /\ pc[r] = "score" => verdict[r] # None
        /\ scores[r] # {} => verdict[r] # None /\ scores[r] \subseteq ScoresOf(verdict[r])

\* When a suite has passed its cases are over, and nothing is found against them.
Concluded ==
    exit = "passed" =>
        \A r \in Run : kind[r] = "eval" =>
            /\ pc[r] = "done"
            /\ verdict[r] # None => verdict[r].valid /\ verdict[r].sql /\ verdict[r].rows

Traced == Known /\ Contexts /\ Unreturned /\ Begun /\ GenerationsAreOwn
Answered == Threads /\ Relayed /\ Own /\ Replied /\ StatusTellsTheReply
Told == Sent /\ Judged /\ Concluded

IInv == TypeOK /\ Traced /\ Answered /\ Told


\* A step of run r, which is under way.
Moves(r) ==
    /\ Busy(r)
    /\ pc' = [pc EXCEPT ![r] = pc'[r]]
    /\ UNCHANGED <<kind, place, on, previous, mixed>>

-----------------------------------------------------------------------------
(***************************************************************************)
(* What any step of a run keeps.                                           *)
(***************************************************************************)
LEMMA TakenFacts ==
  ASSUME NEW S, NEW taken \in Taken(S)
  PROVE  taken \subseteq S
BY DEF Taken

LEMMA TraceFacts ==
  ASSUME NEW r \in Run
  PROVE  <<r, "run">> \in Trace /\ <<r, "eval">> \in Trace
BY DEF Trace

LEMMA ThreadsKept ==
  ASSUME IInv, NEW r \in Run, Moves(r)
  PROVE  Threads'
<1>1. \A q \in Run \ {r} : pc'[q] = pc[q]
  BY DEF Moves, IInv, TypeOK
<1>2. \A q \in Run : Busy(q)' => Busy(q)
  BY <1>1 DEF Moves, Busy
<1>. QED
  BY <1>2 DEF Moves, IInv, Answered, Threads

LEMMA ConcludedKept ==
  ASSUME IInv, NEW r \in Run, Moves(r), exit' \in {exit, "aborted"},
         \A q \in Run \ {r} : verdict'[q] = verdict[q]
  PROVE  Concluded'
<1>1. \A q \in Run \ {r} : pc'[q] = pc[q]
  BY DEF Moves, IInv, TypeOK
<1>2. SUFFICES ASSUME exit' = "passed", NEW q \in Run, kind'[q] = "eval"
               PROVE  /\ pc'[q] = "done"
                      /\ verdict'[q] # None => verdict'[q].valid /\ verdict'[q].sql /\ verdict'[q].rows
  BY DEF Concluded
<1>3. exit = "passed" /\ kind[q] = "eval" /\ pc[r] # "done"
  BY <1>2 DEF Moves, Busy, Ended
<1>4. q # r
  BY <1>3 DEF IInv, Told, Concluded
<1>. QED
  BY <1>1, <1>3, <1>4 DEF IInv, Told, Concluded

\* Inside the block nothing changes about the context.
LEMMA InsideKeeps ==
  ASSUME IInv, NEW r \in Run, Moves(r), pc[r] \in Live, pc'[r] \in Live,
         UNCHANGED current, UNCHANGED trace
  PROVE  Known' /\ Contexts'
<1>1. \A q \in Run \ {r} : pc'[q] = pc[q]
  BY DEF Moves, IInv, TypeOK
<1>2. \A q \in Run : (Busy(q)' => Busy(q)) /\ (pc'[q] \in Live <=> pc[q] \in Live)
  BY <1>1 DEF Moves, Busy
<1>3. Known'
  BY DEF Moves, IInv, Traced, Known
<1>4. Contexts'
  BY <1>2 DEF Moves, IInv, Traced, Contexts, Live, Suspended
<1>. QED
  BY <1>3, <1>4

\* Outside it neither, whatever becomes of the traces of the evaluator.
LEMMA OutsideKeeps ==
  ASSUME IInv, NEW r \in Run, Moves(r), pc[r] \notin Live, pc'[r] \notin Live,
         UNCHANGED current, \A x \in Trace : trace'[x] = "none" => trace[x] = "none"
  PROVE  Known' /\ Contexts'
<1>1. \A q \in Run \ {r} : pc'[q] = pc[q]
  BY DEF Moves, IInv, TypeOK
<1>2. \A q \in Run : (Busy(q)' => Busy(q)) /\ (pc'[q] \in Live <=> pc[q] \in Live)
  BY <1>1 DEF Moves, Busy
<1>3. Known'
  BY DEF Moves, IInv, TypeOK, Traced, Known
<1>4. Contexts'
  BY <1>2 DEF Moves, IInv, Traced, Contexts, Live, Suspended
<1>. QED
  BY <1>3, <1>4

\* Whoever leaves the block, by return or exception, restores no trace at all.
LEMMA LeaveKeeps ==
  ASSUME IInv, NEW r \in Run, Moves(r), pc[r] \in Live, pc'[r] \notin Live,
         NEW raising \in BOOLEAN, Leave(r, raising),
         \A x \in Trace : trace'[x] = "none" => trace[x] = "none"
  PROVE  /\ Known' /\ Contexts'
         /\ current' \in [Context -> {x \in Trace : trace'[x] # "none"} \cup {None}]
<1>1. \A q \in Run \ {r} : pc'[q] = pc[q]
  BY DEF Moves, IInv, TypeOK
<1>2. \A q \in Run : (Busy(q)' => Busy(q)) /\ (pc'[q] \in Live => pc[q] \in Live /\ q # r)
  BY <1>1 DEF Moves, Busy
<1>3. Known'
  BY DEF Moves, IInv, TypeOK, Traced, Known
<1>4. /\ current' = IF kind[r] = "resume" THEN current
                    ELSE [current EXCEPT ![place[r]] = previous[r]]
      /\ current \in [Context -> {x \in Trace : trace[x] # "none"} \cup {None}]
      /\ place[r] \in Context /\ previous[r] \in Trace \cup {None}
      /\ previous[r] # None => trace[previous[r]] # "none"
  BY DEF Leave, Restored, IInv, TypeOK, Traced, Known
<1>5. current' \in [Context -> {x \in Trace : trace'[x] # "none"} \cup {None}]
  BY <1>4
<1>6. ASSUME NEW p \in Context \ mixed, current'[p] # None
      PROVE  \E q \in Run \ {r} : /\ place[q] = p /\ pc[q] \in Live /\ kind[q] # "resume"
                                  /\ current'[p] = <<q, "run">>
  <2>1. place[r] # p \/ kind[r] = "resume"
    BY <1>4, <1>6 DEF IInv, Traced, Contexts
  <2>2. current'[p] = current[p]
    BY <1>4, <2>1
  <2>3. PICK q \in Run : /\ place[q] = p /\ pc[q] \in Live /\ kind[q] # "resume"
                         /\ current[p] = <<q, "run">>
    BY <1>6, <2>2 DEF IInv, Traced, Contexts
  <2>. QED
    BY <2>1, <2>2, <2>3
<1>7. Contexts'
  <2>1. ASSUME NEW p \in Context \ mixed PROVE
        /\ \A q, s \in Run : place[q] = p /\ place[s] = p /\ Busy(q)' /\ Busy(s)' => q = s
        /\ \A q \in Run : place[q] = p /\ pc'[q] \in Live => previous[q] = None
    BY <1>2 DEF IInv, Traced, Contexts
  <2>2. ASSUME NEW p \in Context \ mixed, current'[p] # None PROVE
        \E q \in Run : /\ place[q] = p /\ pc'[q] \in Live /\ kind[q] # "resume"
                       /\ current'[p] = <<q, "run">>
    BY <1>1, <1>6, <2>2
  <2>. QED
    BY <2>1, <2>2 DEF Moves, Contexts, Live, Suspended
<1>. QED
  BY <1>3, <1>5, <1>7

\* No LLM call is recorded, or some of those that are have ended.
LEMMA EndGenerationFacts ==
  ASSUME IInv, NEW r \in Run, EndGeneration(r)
  PROVE  /\ generations' \subseteq Generation
         /\ \A g \in generations' : \E h \in generations :
              g.by = h.by /\ g.on = h.on /\ g.late = h.late
<1>1. generations \subseteq Generation
  BY DEF IInv, TypeOK
<1>2. ASSUME NEW g \in generations'
      PROVE  /\ g \in Generation
             /\ \E h \in generations : g.by = h.by /\ g.on = h.on /\ g.late = h.late
  <2>1. PICK h \in generations : g = IF h.by = r THEN [h EXCEPT !.open = FALSE] ELSE h
    BY <1>2 DEF EndGeneration
  <2>2. h \in Generation
    BY <1>1
  <2>3. /\ [h EXCEPT !.open = FALSE] \in Generation
        /\ [h EXCEPT !.open = FALSE].by = h.by
        /\ [h EXCEPT !.open = FALSE].on = h.on
        /\ [h EXCEPT !.open = FALSE].late = h.late
    BY <2>2 DEF Generation
  <2>. QED
    BY <2>1, <2>2, <2>3
<1>. QED
  BY <1>2

LEMMA GenerationsKept ==
  ASSUME IInv, NEW r \in Run, Moves(r), pc'[r] # "new",
         \A g \in generations' : \E h \in generations :
           g.by = h.by /\ g.on = h.on /\ g.late = h.late
  PROVE  Begun' /\ GenerationsAreOwn'
<1>1. \A q \in Run \ {r} : pc'[q] = pc[q]
  BY DEF Moves, IInv, TypeOK
<1>2. \A h \in generations : h.by \in Run
  BY DEF IInv, TypeOK, Generation
<1>3. Begun'
  BY <1>1, <1>2 DEF IInv, Traced, Begun
<1>4. GenerationsAreOwn'
  BY DEF Moves, IInv, Traced, GenerationsAreOwn
<1>. QED
  BY <1>3, <1>4

\* What is recorded when r calls an LLM inside the block, or outside it.
LEMMA StartGenerationFacts ==
  ASSUME IInv, NEW r \in Run, Moves(r), pc'[r] # "new", StartGeneration(r),
         asked[r] + 1 \in 1..(MaxLlmCalls + 1)
  PROVE  generations' \subseteq Generation /\ Begun' /\ GenerationsAreOwn'
<1>. DEFINE x == current[place[r]]
            n == [by |-> r, nth |-> asked[r] + 1, on |-> x,
                  late |-> trace[x] = "ended", open |-> TRUE]
<1>1. CASE x = None
  <2>1. generations' = generations
    BY <1>1 DEF StartGeneration
  <2>. QED
    BY <2>1, GenerationsKept DEF IInv, TypeOK
<1>2. CASE x # None
  <2>1. generations' = generations \cup {n} /\ n.by = r /\ n.on = x /\ n.late = (trace[x] = "ended")
    BY <1>2 DEF StartGeneration
  <2>2. x \in Trace
    BY <1>2 DEF IInv, TypeOK
  <2>3. n \in Generation
    BY <2>2 DEF Generation
  <2>4. place[r] \notin mixed => x[1] = r /\ kind[r] # "resume" /\ trace[x] # "ended"
    <3>1. SUFFICES ASSUME place[r] \notin mixed
                   PROVE  x[1] = r /\ kind[r] # "resume" /\ trace[x] # "ended"
      OBVIOUS
    <3>2. PICK q \in Run : /\ place[q] = place[r] /\ pc[q] \in Live /\ kind[q] # "resume"
                           /\ x = <<q, "run">>
      BY <1>2, <3>1 DEF IInv, TypeOK, Traced, Contexts
    <3>3. q = r
      BY <3>1, <3>2 DEF Moves, Busy, Live, Suspended, Ended, IInv, TypeOK, Traced, Contexts
    <3>. QED
      BY <3>2, <3>3 DEF IInv, Traced, Unreturned
  <2>5. generations' \subseteq Generation
    BY <2>1, <2>3 DEF IInv, TypeOK
  <2>6. Begun'
    <3>1. \A q \in Run \ {r} : pc'[q] = pc[q]
      BY DEF Moves, IInv, TypeOK
    <3>2. \A h \in generations : h.by \in Run
      BY DEF IInv, TypeOK, Generation
    <3>. QED
      BY <2>1, <3>1, <3>2 DEF IInv, Traced, Begun
  <2>7. GenerationsAreOwn'
    <3>. HIDE DEF n
    <3>1. ASSUME NEW g \in generations', place[g.by] \notin mixed
          PROVE  g.on[1] = g.by /\ kind[g.by] # "resume" /\ ~g.late
      <4>1. CASE g = n
        BY <2>1, <2>4, <3>1, <4>1
      <4>2. CASE g \in generations
        BY <3>1, <4>2 DEF IInv, Traced, GenerationsAreOwn
      <4>. QED
        BY <2>1, <4>1, <4>2
    <3>. QED
      BY <3>1 DEF Moves, GenerationsAreOwn
  <2>. QED
    BY <2>5, <2>6, <2>7
<1>. QED
  BY <1>1, <1>2

-----------------------------------------------------------------------------
(***************************************************************************)
(* The steps of a run keep the invariant.                                  *)
(***************************************************************************)
LEMMA NothingFacts ==
  /\ None \notin Result /\ NoResult # None /\ None \notin Verdict
  /\ None # "passed" /\ NoResult \notin Result
  /\ \A r \in Run : r # Main /\ r # None
BY NothingAssumption, NamesAssumption DEF NoResult, Result

LEMMA InitIInv == Init => IInv
<1>. SUFFICES ASSUME Init PROVE IInv
  OBVIOUS
<1>. USE DEF Init
<1>1. TypeOK
  BY BoundAssumption DEF TypeOK, Kind, Context, Trace
<1>2. Traced
  BY TraceFacts DEF Traced, Known, Contexts, Unreturned, Begun, GenerationsAreOwn, Busy, Live,
    Suspended
<1>3. Threads /\ Relayed /\ Own /\ Replied
  BY DEF Threads, Relayed, Own, Replied, Busy, Streaming
<1>4. StatusTellsTheReply
  BY TraceFacts DEF StatusTellsTheReply
<1>5. Told
  BY NothingFacts DEF Told, Sent, Judged, Concluded
<1>. QED
  BY <1>1, <1>2, <1>3, <1>4, <1>5 DEF IInv, Answered

LEMMA AskLlmKeeps ==
  ASSUME IInv, NEW r \in Run, AskLlm(r)
  PROVE  IInv'
<1>1. /\ pc[r] = "node" /\ asked[r] < MaxLlmCalls /\ StartGeneration(r)
      /\ pc' = [pc EXCEPT ![r] = "llm"]
      /\ asked' = [asked EXCEPT ![r] = asked[r] + 1]
      /\ UNCHANGED <<kind, place, on, paused, channel, current, previous, trace, status, mixed,
                     last, held, reply, wire, away, shown, verdict, scores, exit>>
  BY DEF AskLlm, streams, client, cases
<1>2. Moves(r) /\ pc'[r] = "llm" /\ \A q \in Run \ {r} : pc'[q] = pc[q]
  BY <1>1 DEF Moves, Busy, Ended, IInv, TypeOK
<1>3. asked[r] + 1 \in 0..MaxLlmCalls /\ asked[r] + 1 \in 1..(MaxLlmCalls + 1)
  BY <1>1, BoundAssumption DEF IInv, TypeOK
<1>4. generations' \subseteq Generation /\ Begun' /\ GenerationsAreOwn'
  BY <1>1, <1>2, <1>3, StartGenerationFacts
<1>5. Known' /\ Contexts'
  BY <1>1, <1>2, InsideKeeps DEF Live
<1>6. TypeOK'
  BY <1>1, <1>3, <1>4 DEF IInv, TypeOK
<1>7. Unreturned'
  BY <1>1, <1>2 DEF IInv, Traced, Unreturned, Live
<1>8. Threads' /\ Concluded'
  BY <1>1, <1>2, ThreadsKept, ConcludedKept
<1>9. Relayed' /\ Own' /\ Replied'
  BY <1>1, <1>2 DEF IInv, Answered, Relayed, Own, Replied, Streaming, LastResult, Suspended
<1>10. StatusTellsTheReply'
  BY <1>1, <1>2 DEF IInv, Answered, StatusTellsTheReply, Returned, Given
<1>11. Sent' /\ Judged'
  BY <1>1, <1>2 DEF IInv, Told, Sent, Judged
<1>. QED
  BY <1>4, <1>5, <1>6, <1>7, <1>8, <1>9, <1>10, <1>11 DEF IInv, Traced, Answered, Told

LEMMA LlmAnswersKeeps ==
  ASSUME IInv, NEW r \in Run, LlmAnswers(r)
  PROVE  IInv'
<1>1. /\ pc[r] = "llm" /\ EndGeneration(r)
      /\ pc' = [pc EXCEPT ![r] = IF Streaming(r) THEN "yielded" ELSE "node"]
      /\ last' = IF Streaming(r) THEN [last EXCEPT ![r] = LastResult(last[r], channel[on[r]])]
                 ELSE last
      /\ UNCHANGED <<kind, place, on, asked, paused, channel, current, previous, trace, status,
                     mixed, held, reply, wire, away, shown, verdict, scores, exit>>
  BY DEF LlmAnswers, client, cases
<1>2. /\ Moves(r) /\ pc'[r] = (IF Streaming(r) THEN "yielded" ELSE "node")
      /\ \A q \in Run \ {r} : pc'[q] = pc[q]
  BY <1>1 DEF Moves, Busy, Ended, IInv, TypeOK
<1>3. LastResult(last[r], channel[on[r]]) \in Result \cup {None}
  BY DEF IInv, TypeOK, LastResult
<1>4. generations' \subseteq Generation /\ Begun' /\ GenerationsAreOwn'
  BY <1>1, <1>2, EndGenerationFacts, GenerationsKept
<1>5. Known' /\ Contexts'
  BY <1>1, <1>2, InsideKeeps DEF Live, Suspended
<1>6. TypeOK'
  BY <1>1, <1>3, <1>4 DEF IInv, TypeOK, Suspended
<1>7. Unreturned'
  BY <1>1, <1>2 DEF IInv, Traced, Unreturned, Live
<1>8. Threads' /\ Concluded'
  BY <1>1, <1>2, ThreadsKept, ConcludedKept
<1>9. Relayed' /\ Own' /\ Replied'
  BY <1>1, <1>2 DEF IInv, TypeOK, Answered, Relayed, Own, Replied, Streaming, Suspended
<1>10. StatusTellsTheReply'
  BY <1>1, <1>2, TraceFacts
  DEF IInv, TypeOK, Traced, Unreturned, Live, Answered, StatusTellsTheReply, Returned, Given
<1>11. Sent' /\ Judged'
  BY <1>1, <1>2 DEF IInv, Told, Sent, Judged
<1>. QED
  BY <1>4, <1>5, <1>6, <1>7, <1>8, <1>9, <1>10, <1>11 DEF IInv, Traced, Answered, Told

\* Raise, after what becomes of the generations.
LEMMA RaiseKeeps ==
  ASSUME IInv, NEW r \in Run, pc[r] \in {"node", "llm"}, Raise(r),
         generations' \subseteq Generation,
         \A g \in generations' : \E h \in generations :
           g.by = h.by /\ g.on = h.on /\ g.late = h.late
  PROVE  IInv'
<1>1. /\ Leave(r, TRUE) /\ SendError(r)
      /\ pc' = [pc EXCEPT ![r] = "raised"]
      /\ exit' = IF kind[r] = "eval" THEN "aborted" ELSE exit
      /\ UNCHANGED <<kind, place, on, asked, paused, channel, previous, trace, status, mixed,
                     last, held, reply, away, shown, verdict, scores>>
  BY DEF Raise, streams
<1>2. Moves(r) /\ pc'[r] = "raised" /\ \A q \in Run \ {r} : pc'[q] = pc[q]
  BY <1>1 DEF Moves, Busy, Ended, IInv, TypeOK
<1>3. Begun' /\ GenerationsAreOwn'
  BY <1>2, GenerationsKept
<1>4. /\ Known' /\ Contexts'
      /\ current' \in [Context -> {x \in Trace : trace'[x] # "none"} \cup {None}]
  BY <1>1, <1>2, LeaveKeeps DEF Live, Suspended
<1>5. /\ wire' \in [Run -> Result \cup {None, NoResult}]
      /\ \A q \in Run : wire'[q] = wire[q] \/ wire'[q] = NoResult
  BY <1>1 DEF SendError, IInv, TypeOK
<1>6. TypeOK'
  BY <1>1, <1>4, <1>5 DEF IInv, TypeOK, Ended
<1>7. Unreturned'
  BY <1>1, <1>2 DEF IInv, Traced, Unreturned, Live, Suspended
<1>8. Threads' /\ Concluded'
  BY <1>1, <1>2, ThreadsKept, ConcludedKept
<1>9. Relayed' /\ Own' /\ Replied'
  BY <1>1, <1>2 DEF IInv, Answered, Relayed, Own, Replied, Streaming, LastResult, Suspended
<1>10. StatusTellsTheReply'
  BY <1>1, <1>2 DEF IInv, Answered, StatusTellsTheReply, Returned, Given
<1>11. Sent' /\ Judged'
  BY <1>1, <1>2, <1>5, NothingFacts DEF IInv, Told, Sent, Judged
<1>. QED
  BY <1>3, <1>4, <1>6, <1>7, <1>8, <1>9, <1>10, <1>11 DEF IInv, Traced, Answered, Told

LEMMA RaisesKeep ==
  ASSUME IInv, NEW r \in Run, LlmRaises(r) \/ NodeRaises(r)
  PROVE  IInv'
<1>1. /\ pc[r] \in {"node", "llm"} /\ Raise(r)
      /\ EndGeneration(r) \/ UNCHANGED generations
  BY DEF LlmRaises, NodeRaises
<1>2. /\ generations' \subseteq Generation
      /\ \A g \in generations' : \E h \in generations :
           g.by = h.by /\ g.on = h.on /\ g.late = h.late
  BY <1>1, EndGenerationFacts DEF IInv, TypeOK
<1>. QED
  BY <1>1, <1>2, RaiseKeeps

LEMMA GraphEndsKeeps ==
  ASSUME IInv, NEW r \in Run, GraphEnds(r)
  PROVE  IInv'
<1>1. PICK x \in [of: {r}, ok: BOOLEAN] \cup {None} :
        /\ channel' = [channel EXCEPT ![on[r]] = IF x = None THEN channel[on[r]] ELSE x]
        /\ paused' = IF x = None THEN paused \cup {r} ELSE paused
        /\ last' = IF Streaming(r)
                   THEN [last EXCEPT ![r] = LastResult(last[r], channel'[on[r]])] ELSE last
  <2>1. on[r] \in Thread \cup Run /\ channel \in [Thread \cup Run -> Result \cup {None}]
    BY DEF IInv, TypeOK
  <2>. QED
    BY <2>1 DEF GraphEnds
<1>2. /\ pc[r] = "node"
      /\ pc' = [pc EXCEPT ![r] = IF Streaming(r) THEN "last" ELSE "over"]
      /\ UNCHANGED <<kind, place, on, asked, current, previous, trace, status, generations,
                     mixed, held, reply, wire, away, shown, verdict, scores, exit>>
  BY DEF GraphEnds, tracing, client, cases
<1>3. /\ Moves(r) /\ pc'[r] = (IF Streaming(r) THEN "last" ELSE "over")
      /\ \A q \in Run \ {r} : pc'[q] = pc[q] /\ last'[q] = last[q]
      /\ \A q \in Run : on[q] # on[r] => channel'[on[q]] = channel[on[q]]
  BY <1>1, <1>2 DEF Moves, Busy, Ended, IInv, TypeOK
<1>4. /\ channel' \in [Thread \cup Run -> Result \cup {None}]
      /\ x # None => channel'[on[r]] = x /\ x \in [of: {r}, ok: BOOLEAN]
      /\ x = None => channel'[on[r]] = channel[on[r]] /\ r \in paused'
      /\ channel'[on[r]] # None \/ x = None
  BY <1>1 DEF IInv, TypeOK, Result
<1>5. \A q \in Run \ {r} : Busy(q) => on[q] # on[r]
  BY <1>2 DEF IInv, Answered, Threads, Busy, Ended
<1>6. Begun' /\ GenerationsAreOwn'
  BY <1>2, <1>3, GenerationsKept
<1>7. Known' /\ Contexts'
  BY <1>2, <1>3, InsideKeeps DEF Live, Suspended
<1>8. /\ last' \in [Run -> Result \cup {None}]
      /\ Streaming(r) => last'[r] = LastResult(last[r], channel'[on[r]])
  BY <1>1, <1>4 DEF IInv, TypeOK, LastResult
<1>9. TypeOK'
  BY <1>1, <1>2, <1>4, <1>8 DEF IInv, TypeOK, Suspended
<1>10. Unreturned'
  BY <1>2, <1>3 DEF IInv, Traced, Unreturned, Live
<1>11. Threads' /\ Concluded'
  BY <1>2, <1>3, ThreadsKept, ConcludedKept
<1>12. Relayed'
  <2>1. ASSUME NEW q \in Run, kind[q] = "astream", pc'[q] \in Suspended
        PROVE  last'[q] = LastResult(held[q], channel'[on[q]])
    <3>1. CASE q = r
      BY <1>2, <1>3, <1>8, <2>1, <3>1 DEF IInv, Answered, Relayed, Streaming
    <3>2. CASE q # r
      <4>1. Busy(q)
        BY <1>3, <2>1, <3>2 DEF Busy, Ended, Suspended
      <4>. QED
        BY <1>3, <1>5, <2>1, <3>2, <4>1 DEF IInv, Answered, Relayed
    <3>. QED
      BY <3>1, <3>2
  <2>2. ASSUME NEW q \in Run, kind[q] = "astream",
               pc'[q] \in {"node", "llm", "over", "closing", "done"}
        PROVE  last'[q] = held[q]
    BY <1>3, <2>2 DEF IInv, Answered, Relayed, Streaming
  <2>3. \A q \in Run : pc'[q] = "new" => held[q] = None
    BY <1>3 DEF IInv, Answered, Relayed
  <2>. QED
    BY <1>2, <2>1, <2>2, <2>3 DEF Relayed, Suspended, LastResult
<1>13. Own'
  <2>. SUFFICES ASSUME NEW q \in Run, q \notin paused'
                PROVE  /\ Streaming(q) /\ pc'[q] \in {"last", "over", "closing", "done"} =>
                            last'[q] \in [of: {q}, ok: BOOLEAN]
                       /\ ~Streaming(q) /\ pc'[q] = "over" =>
                            channel'[on[q]] \in [of: {q}, ok: BOOLEAN]
                       /\ reply[q] # None => reply[q] \in [of: {q}, ok: BOOLEAN]
    BY <1>2 DEF Own, Streaming
  <2>1. q \notin paused
    BY <1>1
  <2>2. reply[q] # None => reply[q] \in [of: {q}, ok: BOOLEAN]
    BY <2>1 DEF IInv, Answered, Own
  <2>3. CASE q = r
    <3>1. x # None
      BY <1>4, <2>3
    <3>2. channel'[on[r]] # None /\ channel'[on[r]] \in [of: {r}, ok: BOOLEAN]
      BY <1>4, <3>1
    <3>. QED
      BY <1>8, <2>2, <2>3, <3>2 DEF LastResult
  <2>4. CASE q # r
    <3>1. ~Streaming(q) /\ pc'[q] = "over" => channel'[on[q]] = channel[on[q]]
      BY <1>3, <1>5, <2>4 DEF Busy, Ended
    <3>. QED
      BY <1>3, <2>1, <2>2, <2>4, <3>1 DEF IInv, Answered, Own
  <2>. QED
    BY <2>3, <2>4
<1>14. Replied'
  BY <1>2, <1>3 DEF IInv, Answered, Replied, Streaming
<1>15. StatusTellsTheReply'
  <2>1. r \in Run /\ trace[<<r, "run">>] # "ended" /\ status[<<r, "run">>] = "unset"
    BY <1>2 DEF IInv, Traced, Unreturned, Live
  <2>. QED
    BY <1>1, <1>2, <1>3, <2>1 DEF IInv, Answered, StatusTellsTheReply, Returned, Given
<1>16. Sent' /\ Judged'
  BY <1>2, <1>3 DEF IInv, Told, Sent, Judged
<1>. QED
  BY <1>6, <1>7, <1>9, <1>10, <1>11, <1>12, <1>13, <1>14, <1>15, <1>16
  DEF IInv, Traced, Answered, Told

LEMMA TakeSnapshotKeeps ==
  ASSUME IInv, NEW r \in Run, TakeSnapshot(r)
  PROVE  IInv'
<1>1. /\ kind[r] = "stream" /\ pc[r] \in Suspended
      /\ pc' = [pc EXCEPT ![r] = Continued(r)]
      /\ UNCHANGED <<kind, place, on, asked, paused, channel, current, previous, trace, status,
                     generations, mixed, last, held, reply, wire, away, shown, verdict, scores,
                     exit>>
  BY DEF TakeSnapshot, tracing, streams, client, cases
<1>2. /\ Moves(r) /\ pc'[r] = Continued(r) /\ \A q \in Run \ {r} : pc'[q] = pc[q]
      /\ pc'[r] \in {"over", "node"} /\ (pc'[r] = "over" => pc[r] = "last")
  BY <1>1 DEF Moves, Busy, Ended, Suspended, Continued, IInv, TypeOK
<1>3. Begun' /\ GenerationsAreOwn'
  BY <1>1, <1>2, GenerationsKept
<1>4. Known' /\ Contexts'
  BY <1>1, <1>2, InsideKeeps DEF Live
<1>5. TypeOK'
  BY <1>1, <1>2 DEF IInv, TypeOK
<1>6. Unreturned'
  BY <1>1, <1>2 DEF IInv, Traced, Unreturned, Live
<1>7. Threads' /\ Concluded'
  BY <1>1, <1>2, ThreadsKept, ConcludedKept
<1>8. Relayed' /\ Own' /\ Replied'
  BY <1>1, <1>2 DEF IInv, Answered, Relayed, Own, Replied, Streaming, LastResult, Suspended
<1>9. StatusTellsTheReply'
  BY <1>1, <1>2 DEF IInv, Answered, StatusTellsTheReply, Returned, Given, Suspended
<1>10. Sent' /\ Judged'
  BY <1>1, <1>2 DEF IInv, Told, Sent, Judged, Suspended
<1>. QED
  BY <1>3, <1>4, <1>5, <1>6, <1>7, <1>8, <1>9, <1>10 DEF IInv, Traced, Answered, Told

LEMMA ForwardSnapshotKeeps ==
  ASSUME IInv, NEW r \in Run, ForwardSnapshot(r)
  PROVE  IInv'
<1>1. /\ kind[r] = "astream" /\ pc[r] \in Suspended
      /\ held' = [held EXCEPT ![r] = LastResult(held[r], channel[on[r]])]
      /\ pc' = [pc EXCEPT ![r] = Continued(r)]
      /\ UNCHANGED <<kind, place, on, asked, paused, channel, current, previous, trace, status,
                     generations, mixed, last, reply, away, shown, verdict, scores, exit>>
  BY DEF ForwardSnapshot, tracing, cases
<1>2. wire' = wire
  BY DEF ForwardSnapshot, SnapshotFrames, IInv, TypeOK
<1>3. /\ Moves(r) /\ pc'[r] = Continued(r) /\ \A q \in Run \ {r} : pc'[q] = pc[q]
      /\ pc'[r] \in {"over", "node"} /\ (pc'[r] = "over" => pc[r] = "last")
  BY <1>1 DEF Moves, Busy, Ended, Suspended, Continued, IInv, TypeOK
<1>4. /\ held' \in [Run -> Result \cup {None}]
      /\ held'[r] = last[r] /\ \A q \in Run \ {r} : held'[q] = held[q]
  <2>1. last[r] = LastResult(held[r], channel[on[r]])
    BY <1>1 DEF IInv, Answered, Relayed
  <2>. QED
    BY <1>1, <2>1 DEF IInv, TypeOK
<1>5. Begun' /\ GenerationsAreOwn'
  BY <1>1, <1>3, GenerationsKept
<1>6. Known' /\ Contexts'
  BY <1>1, <1>3, InsideKeeps DEF Live
<1>7. TypeOK'
  BY <1>1, <1>2, <1>3, <1>4 DEF IInv, TypeOK
<1>8. Unreturned'
  BY <1>1, <1>3 DEF IInv, Traced, Unreturned, Live
<1>9. Threads' /\ Concluded'
  BY <1>1, <1>3, ThreadsKept, ConcludedKept
<1>10. Relayed' /\ Own' /\ Replied'
  BY <1>1, <1>3, <1>4 DEF IInv, Answered, Relayed, Own, Replied, Streaming, LastResult, Suspended
<1>11. StatusTellsTheReply'
  <2>1. trace[<<r, "run">>] # "ended" /\ status[<<r, "run">>] = "unset"
    BY <1>1 DEF IInv, Traced, Unreturned, Live
  <2>. QED
    BY <1>1, <1>3, <1>4, <2>1 DEF IInv, Answered, StatusTellsTheReply, Returned, Given
<1>12. Sent' /\ Judged'
  BY <1>1, <1>2, <1>3, <1>4 DEF IInv, Told, Sent, Judged, Suspended
<1>. QED
  BY <1>5, <1>6, <1>7, <1>8, <1>9, <1>10, <1>11, <1>12 DEF IInv, Traced, Answered, Told

LEMMA ReturnKeeps ==
  ASSUME IInv, NEW r \in Run, Return(r)
  PROVE  IInv'
<1>. DEFINE x == IF Streaming(r) THEN last[r] ELSE ReturnValue(r)
            t == <<r, "run">>
<1>1. /\ pc[r] = "over" /\ Leave(r, FALSE)
      /\ IF kind[r] = "resume" THEN UNCHANGED <<trace, status>>
         ELSE Finish(t, x # None /\ x.ok)
      /\ reply' = IF Streaming(r) THEN reply ELSE [reply EXCEPT ![r] = x]
      /\ pc' = [pc EXCEPT ![r] = CASE kind[r] = "astream" -> "closing"
                                   [] kind[r] = "eval" -> "judge"
                                   [] OTHER -> "done"]
      /\ UNCHANGED <<kind, place, on, asked, paused, channel, previous, generations, mixed,
                     last, held, wire, away, shown, verdict, scores, exit>>
  BY DEF Return, streams, client, cases
<1>2. /\ Moves(r) /\ \A q \in Run \ {r} : pc'[q] = pc[q]
      /\ kind[r] = "astream" => pc'[r] = "closing"
      /\ kind[r] = "eval" => pc'[r] = "judge"
      /\ kind[r] \notin {"astream", "eval"} => pc'[r] = "done"
  BY <1>1 DEF Moves, Busy, Ended, Suspended, IInv, TypeOK
<1>3. pc'[r] \in {"closing", "judge", "done"}
  BY <1>2
<1>4. /\ t \in Trace /\ trace' \in [Trace -> {"none", "open", "ended"}]
      /\ status' \in [Trace -> {"unset", "success", "error"}]
      /\ \A y \in Trace \ {t} : trace'[y] = trace[y] /\ status'[y] = status[y]
      /\ trace'[t] = "none" <=> trace[t] = "none"
      /\ \/ status'[t] = status[t]
         \/ status'[t] = IF x # None /\ x.ok THEN "success" ELSE "error"
  <2>1. CASE kind[r] = "resume"
    BY <1>1, <2>1, TraceFacts DEF IInv, TypeOK
  <2>2. CASE kind[r] # "resume"
    <3>1. Finish(t, x # None /\ x.ok)
      BY <1>1, <2>2
    <3>2. PICK taken \in Taken(IF trace[t] = "none" THEN {} ELSE {"update", "end"}) :
            /\ status' = IF "update" \in taken
                         THEN [status EXCEPT ![t] = IF x # None /\ x.ok THEN "success" ELSE "error"]
                         ELSE status
            /\ trace' = IF "end" \in taken THEN [trace EXCEPT ![t] = "ended"] ELSE trace
      BY <3>1 DEF Finish
    <3>3. taken # {} => trace[t] # "none"
      BY <3>2, TakenFacts
    <3>. HIDE DEF x, t
    <3>4. t \in Trace
      BY TraceFacts DEF t
    <3>5. /\ trace' \in [Trace -> {"none", "open", "ended"}]
          /\ \A y \in Trace \ {t} : trace'[y] = trace[y]
          /\ trace'[t] = "none" <=> trace[t] = "none"
          /\ "end" \notin taken => trace' = trace
      BY <3>2, <3>3, <3>4 DEF IInv, TypeOK
    <3>6. CASE "update" \in taken
      BY <3>2, <3>4, <3>5, <3>6 DEF IInv, TypeOK
    <3>7. CASE "update" \notin taken
      BY <3>2, <3>4, <3>5, <3>7 DEF IInv, TypeOK
    <3>. QED
      BY <3>6, <3>7
  <2>. QED
    BY <2>1, <2>2
<1>5. \A y \in Trace : trace'[y] = "none" => trace[y] = "none"
  BY <1>4
<1>6. /\ Known' /\ Contexts'
      /\ current' \in [Context -> {y \in Trace : trace'[y] # "none"} \cup {None}]
  BY <1>1, <1>2, <1>3, <1>5, LeaveKeeps DEF Live, Suspended
<1>7. Begun' /\ GenerationsAreOwn'
  BY <1>1, <1>2, <1>3, GenerationsKept
<1>8. /\ x \in Result \cup {None, NoResult}
      /\ ~Streaming(r) => x # None
      /\ r \notin paused => x \in [of: {r}, ok: BOOLEAN] /\ x # None
  <2>1. last[r] \in Result \cup {None} /\ ReturnValue(r) \in Result \cup {NoResult}
    BY DEF IInv, TypeOK, ReturnValue
  <2>2. [of: {r}, ok: BOOLEAN] \subseteq Result
    BY DEF Result
  <2>3. ASSUME r \notin paused PROVE x \in [of: {r}, ok: BOOLEAN]
    BY <1>1, <2>2, <2>3, NothingFacts DEF IInv, Answered, Own, ReturnValue
  <2>. QED
    BY <2>1, <2>2, <2>3, NothingFacts
<1>9. /\ reply' \in [Run -> Result \cup {None, NoResult}]
      /\ Streaming(r) => reply'[r] = reply[r]
      /\ ~Streaming(r) => reply'[r] = x
      /\ \A q \in Run \ {r} : reply'[q] = reply[q]
  BY <1>1, <1>8 DEF IInv, TypeOK
<1>. HIDE DEF x, t
<1>10. TypeOK'
  BY <1>1, <1>2, <1>3, <1>4, <1>6, <1>9 DEF IInv, TypeOK, Ended
<1>11. Unreturned'
  <2>1. \A q \in Run \ {r} : <<q, "run">> \in Trace \ {t}
    BY TraceFacts DEF t
  <2>. QED
    BY <1>2, <1>3, <1>4, <1>9, <2>1 DEF IInv, Traced, Unreturned, Live, Suspended
<1>12. Threads' /\ Concluded'
  BY <1>1, <1>2, ThreadsKept, ConcludedKept
<1>13. Relayed'
  BY <1>1, <1>2, <1>3 DEF IInv, Answered, Relayed, LastResult, Suspended
<1>14. Own'
  <2>1. Streaming(r) /\ r \notin paused => last[r] \in [of: {r}, ok: BOOLEAN] /\ reply[r] = None
    BY <1>1 DEF IInv, Answered, Own, Traced, Unreturned, Live
  <2>. QED
    BY <1>1, <1>2, <1>3, <1>8, <1>9, <2>1 DEF IInv, Answered, Own, Streaming
<1>15. Replied'
  BY <1>1, <1>2, <1>3, <1>8, <1>9 DEF IInv, Answered, Replied, Streaming
<1>16. StatusTellsTheReply'
  <2>1. ASSUME NEW q \in Run \ {r}
        PROVE  /\ trace'[<<q, "run">>] = trace[<<q, "run">>]
               /\ status'[<<q, "run">>] = status[<<q, "run">>]
               /\ Returned(q)' = Returned(q) /\ Given(q)' = Given(q)
    <3>1. <<q, "run">> \in Trace \ {t}
      BY TraceFacts DEF t
    <3>. QED
      BY <1>1, <1>2, <1>4, <1>9, <3>1 DEF Returned, Given
  <2>2. Returned(r)' /\ Given(r)' = x
    <3>1. kind[r] = "astream" => last[r] = held[r]
      BY <1>1 DEF IInv, Answered, Relayed
    <3>. QED
      BY <1>1, <1>2, <1>8, <1>9, <3>1 DEF Returned, Given, Streaming, x
  <2>3. status[t] = "unset" /\ trace[t] # "ended"
    BY <1>1 DEF IInv, Traced, Unreturned, Live, t
  <2>4. status'[t] # "unset" => (status'[t] = "success" <=> x # None /\ x.ok)
    BY <1>4, <2>3
  <2>5. ASSUME NEW q \in Run, trace'[<<q, "run">>] = "ended" \/ status'[<<q, "run">>] # "unset"
        PROVE  /\ Returned(q)'
               /\ q \notin paused => Given(q)'.of = q
               /\ status'[<<q, "run">>] # "unset" =>
                    (status'[<<q, "run">>] = "success" <=> Given(q)' # None /\ Given(q)'.ok)
    <3>1. CASE q = r
      BY <1>8, <2>2, <2>4, <3>1 DEF t
    <3>2. CASE q # r
      BY <2>1, <2>5, <3>2 DEF IInv, Answered, StatusTellsTheReply
    <3>. QED
      BY <3>1, <3>2
  <2>. QED
    BY <1>1, <2>5 DEF StatusTellsTheReply
<1>17. Sent'
  BY <1>1, <1>2 DEF IInv, Told, Sent
<1>18. Judged'
  BY <1>1, <1>2, <1>3, <1>9 DEF IInv, Told, Judged
<1>. QED
  BY <1>6, <1>7, <1>10, <1>11, <1>12, <1>13, <1>14, <1>15, <1>16, <1>17, <1>18
  DEF IInv, Traced, Answered, Told

LEMMA CloseStreamKeeps ==
  ASSUME IInv, NEW r \in Run, CloseStream(r)
  PROVE  IInv'
<1>1. /\ pc[r] = "closing" /\ pc' = [pc EXCEPT ![r] = "done"]
      /\ wire' = IF away[r] THEN wire
                 ELSE [wire EXCEPT ![r] = IF held[r] = None THEN NoResult ELSE held[r]]
      /\ UNCHANGED <<kind, place, on, asked, paused, channel, current, previous, trace, status,
                     generations, mixed, last, held, reply, away, shown, verdict, scores, exit>>
  BY DEF CloseStream, tracing, streams, cases
<1>2. /\ Moves(r) /\ pc'[r] = "done" /\ \A q \in Run \ {r} : pc'[q] = pc[q]
      /\ kind[r] = "astream"
  BY <1>1 DEF Moves, Busy, Ended, Suspended, IInv, TypeOK, Answered, Replied
<1>3. /\ wire' \in [Run -> Result \cup {None, NoResult}]
      /\ \A q \in Run \ {r} : wire'[q] = wire[q]
      /\ wire'[r] \in {wire[r], NoResult, held[r]}
  BY <1>1 DEF IInv, TypeOK
<1>4. Begun' /\ GenerationsAreOwn'
  BY <1>1, <1>2, GenerationsKept
<1>5. Known' /\ Contexts'
  BY <1>1, <1>2, OutsideKeeps DEF Live, Suspended
<1>6. TypeOK'
  BY <1>1, <1>3 DEF IInv, TypeOK, Ended
<1>7. Unreturned'
  BY <1>1, <1>2 DEF IInv, Traced, Unreturned, Live, Suspended
<1>8. Threads' /\ Concluded'
  BY <1>1, <1>2, ThreadsKept, ConcludedKept
<1>9. Relayed' /\ Own' /\ Replied'
  BY <1>1, <1>2 DEF IInv, Answered, Relayed, Own, Replied, Streaming, LastResult, Suspended
<1>10. StatusTellsTheReply'
  BY <1>1, <1>2 DEF IInv, Answered, StatusTellsTheReply, Returned, Given
<1>11. Sent'
  BY <1>1, <1>2, <1>3, NothingFacts DEF IInv, Told, Sent
<1>12. Judged'
  BY <1>1, <1>2 DEF IInv, Told, Judged
<1>. QED
  BY <1>4, <1>5, <1>6, <1>7, <1>8, <1>9, <1>10, <1>11, <1>12 DEF IInv, Traced, Answered, Told

\* Abandon, and Cancel, which ends a generation.
LEMMA DropsKeep ==
  ASSUME IInv, NEW r \in Run, Abandon(r) \/ Cancel(r)
  PROVE  IInv'
<1>1. /\ pc[r] \in {"node", "llm"} \cup Suspended /\ Leave(r, TRUE)
      /\ EndGeneration(r) \/ UNCHANGED generations
      /\ pc' = [pc EXCEPT ![r] = "dropped"]
      /\ UNCHANGED <<kind, place, on, asked, paused, channel, previous, trace, status, mixed,
                     last, held, reply, wire, away, shown, verdict, scores, exit>>
  BY DEF Abandon, Cancel, streams, client, cases
<1>2. Moves(r) /\ pc'[r] = "dropped" /\ \A q \in Run \ {r} : pc'[q] = pc[q]
  BY <1>1 DEF Moves, Busy, Ended, Suspended, IInv, TypeOK
<1>3. generations' \subseteq Generation /\ Begun' /\ GenerationsAreOwn'
  BY <1>1, <1>2, EndGenerationFacts, GenerationsKept DEF IInv, TypeOK
<1>4. /\ Known' /\ Contexts'
      /\ current' \in [Context -> {x \in Trace : trace'[x] # "none"} \cup {None}]
  BY <1>1, <1>2, LeaveKeeps DEF Live, Suspended
<1>5. TypeOK'
  BY <1>1, <1>3, <1>4 DEF IInv, TypeOK, Ended
<1>6. Unreturned'
  BY <1>1, <1>2 DEF IInv, Traced, Unreturned, Live, Suspended
<1>7. Threads' /\ Concluded'
  BY <1>1, <1>2, ThreadsKept, ConcludedKept
<1>8. Relayed' /\ Own' /\ Replied'
  BY <1>1, <1>2 DEF IInv, Answered, Relayed, Own, Replied, Streaming, LastResult, Suspended
<1>9. StatusTellsTheReply'
  BY <1>1, <1>2 DEF IInv, Answered, StatusTellsTheReply, Returned, Given, Suspended
<1>10. Sent' /\ Judged'
  BY <1>1, <1>2 DEF IInv, Told, Sent, Judged, Suspended
<1>. QED
  BY <1>3, <1>4, <1>5, <1>6, <1>7, <1>8, <1>9, <1>10 DEF IInv, Traced, Answered, Told

-----------------------------------------------------------------------------
(***************************************************************************)
(* The client and the evaluator.                                           *)
(***************************************************************************)
\* What depends on neither the client nor the evaluator.
LEMMA RunUntouched ==
  ASSUME IInv, UNCHANGED <<run, channel, tracing, streams, reply>>
  PROVE  Traced' /\ Answered'
<1>. USE DEF run, tracing, streams
<1>1. Known' /\ Unreturned' /\ Begun' /\ GenerationsAreOwn'
  BY DEF IInv, Traced, Known, Unreturned, Begun, GenerationsAreOwn
<1>2. Contexts' /\ Threads'
  BY DEF IInv, Traced, Answered, Contexts, Threads, Busy
<1>3. Relayed' /\ Own' /\ Replied'
  BY DEF IInv, Answered, Relayed, Own, Replied, Streaming, LastResult
<1>4. StatusTellsTheReply'
  BY DEF IInv, Answered, StatusTellsTheReply, Returned, Given
<1>. QED
  BY <1>1, <1>2, <1>3, <1>4 DEF Traced, Answered

LEMMA ClientKeeps ==
  ASSUME IInv, NEW r \in Run, ReadFrame(r) \/ CutOff(r) \/ WalkAway(r)
  PROVE  IInv'
<1>1. PICK x \in {wire[r], NoResult, None} : Conclude(r, x)
  BY DEF ReadFrame, CutOff, WalkAway
<1>2. /\ shown' = [shown EXCEPT ![r] = x]
      /\ wire' = [wire EXCEPT ![r] = None]
      /\ away' = [away EXCEPT ![r] = TRUE]
      /\ UNCHANGED <<run, channel, tracing, streams, reply, verdict, scores, exit>>
  BY <1>1 DEF Conclude, cases
<1>3. Traced' /\ Answered'
  BY <1>2, RunUntouched
<1>4. TypeOK'
  BY <1>2 DEF IInv, TypeOK, run, tracing, streams
<1>5. Sent'
  BY <1>2, NothingFacts DEF IInv, TypeOK, Told, Sent, run, streams
<1>6. Judged' /\ Concluded'
  BY <1>2 DEF IInv, Told, Judged, Concluded, run
<1>. QED
  BY <1>3, <1>4, <1>5, <1>6 DEF IInv, Told

LEMMA JudgeKeeps ==
  ASSUME IInv, NEW r \in Run, Judge(r)
  PROVE  IInv'
<1>1. PICK v \in Verdict :
        /\ v.valid = reply[r].ok
        /\ verdict' = [verdict EXCEPT ![r] = v]
        /\ StartGeneration(r) \/ UNCHANGED generations
  BY DEF Judge
<1>2. /\ pc[r] = "judge" /\ pc' = [pc EXCEPT ![r] = "score"]
      /\ UNCHANGED <<kind, place, on, asked, paused, channel, current, previous, trace, status,
                     mixed, last, held, reply, wire, away, shown, scores, exit>>
  BY DEF Judge, streams, client
<1>3. /\ Moves(r) /\ pc'[r] = "score" /\ \A q \in Run \ {r} : pc'[q] = pc[q]
      /\ kind[r] = "eval"
  BY <1>2 DEF Moves, Busy, Ended, Suspended, IInv, TypeOK, Answered, Replied
<1>4. asked[r] + 1 \in 1..(MaxLlmCalls + 1)
  BY BoundAssumption DEF IInv, TypeOK
<1>5. generations' \subseteq Generation /\ Begun' /\ GenerationsAreOwn'
  <2>1. CASE StartGeneration(r)
    BY <1>3, <1>4, <2>1, StartGenerationFacts
  <2>2. CASE UNCHANGED generations
    BY <1>3, <2>2, GenerationsKept DEF IInv, TypeOK
  <2>. QED
    BY <1>1, <2>1, <2>2
<1>6. Known' /\ Contexts'
  BY <1>2, <1>3, OutsideKeeps DEF Live, Suspended
<1>7. /\ verdict' \in [Run -> Verdict \cup {None}]
      /\ verdict'[r] = v /\ v # None
      /\ \A q \in Run \ {r} : verdict'[q] = verdict[q]
  BY <1>1, NothingFacts DEF IInv, TypeOK
<1>8. TypeOK'
  BY <1>2, <1>5, <1>7 DEF IInv, TypeOK
<1>9. Unreturned'
  BY <1>2, <1>3 DEF IInv, Traced, Unreturned, Live, Suspended
<1>10. Threads' /\ Concluded'
  BY <1>2, <1>3, <1>7, ThreadsKept, ConcludedKept
<1>11. Relayed' /\ Own' /\ Replied'
  BY <1>2, <1>3 DEF IInv, Answered, Relayed, Own, Replied, Streaming, LastResult, Suspended
<1>12. StatusTellsTheReply'
  BY <1>2, <1>3 DEF IInv, Answered, StatusTellsTheReply, Returned, Given
<1>13. Sent'
  BY <1>2, <1>3 DEF IInv, Told, Sent
<1>14. Judged'
  <2>1. verdict[r] = None
    BY <1>2 DEF IInv, Told, Judged
  <2>. QED
    BY <1>1, <1>2, <1>3, <1>7, <2>1 DEF IInv, Told, Judged
<1>. QED
  BY <1>5, <1>6, <1>8, <1>9, <1>10, <1>11, <1>12, <1>13, <1>14 DEF IInv, Traced, Answered, Told

LEMMA JudgeRaisesKeeps ==
  ASSUME IInv, NEW r \in Run, JudgeRaises(r)
  PROVE  IInv'
<1>1. /\ pc[r] = "judge" /\ pc' = [pc EXCEPT ![r] = "raised"] /\ exit' = "aborted"
      /\ UNCHANGED <<kind, place, on, asked, paused, channel, current, previous, trace, status,
                     generations, mixed, last, held, reply, wire, away, shown, verdict, scores>>
  BY DEF JudgeRaises, tracing, streams, client
<1>2. /\ Moves(r) /\ pc'[r] = "raised" /\ \A q \in Run \ {r} : pc'[q] = pc[q]
      /\ kind[r] = "eval"
  BY <1>1 DEF Moves, Busy, Ended, Suspended, IInv, TypeOK, Answered, Replied
<1>3. Begun' /\ GenerationsAreOwn'
  BY <1>1, <1>2, GenerationsKept
<1>4. Known' /\ Contexts'
  BY <1>1, <1>2, OutsideKeeps DEF Live, Suspended
<1>5. TypeOK'
  BY <1>1 DEF IInv, TypeOK, Ended
<1>6. Unreturned'
  BY <1>1, <1>2 DEF IInv, Traced, Unreturned, Live, Suspended
<1>7. Threads' /\ Concluded'
  BY <1>1, <1>2, ThreadsKept, ConcludedKept
<1>8. Relayed' /\ Own' /\ Replied'
  BY <1>1, <1>2 DEF IInv, Answered, Relayed, Own, Replied, Streaming, LastResult, Suspended
<1>9. StatusTellsTheReply'
  BY <1>1, <1>2 DEF IInv, Answered, StatusTellsTheReply, Returned, Given
<1>10. Sent' /\ Judged'
  BY <1>1, <1>2 DEF IInv, Told, Sent, Judged
<1>. QED
  BY <1>3, <1>4, <1>5, <1>6, <1>7, <1>8, <1>9, <1>10 DEF IInv, Traced, Answered, Told

LEMMA ScoreKeeps ==
  ASSUME IInv, NEW r \in Run, Score(r)
  PROVE  IInv'
<1>1. /\ pc[r] = "score" /\ pc' = [pc EXCEPT ![r] = "done"]
      /\ UNCHANGED <<kind, place, on, asked, paused, channel, current, previous, status,
                     generations, mixed, last, held, reply, wire, away, shown, verdict, exit>>
  BY DEF Score, streams, client
<1>0. \E told \in SUBSET ScoresOf(verdict[r]) :
        /\ scores' = [scores EXCEPT ![r] = told]
        /\ \/ /\ trace[<<r, "eval">>] # "none"
              /\ trace' = [trace EXCEPT ![<<r, "eval">>] = "ended"]
           \/ trace' = trace
  <2>. DEFINE x == <<r, "eval">>
              S == IF trace[x] = "none" THEN {} ELSE ScoresOf(verdict[r])
              E == IF trace[x] = "none" THEN {} ELSE {"end"}
  <2>1. PICK told \in Taken(S), taken \in Taken(E) :
          /\ scores' = [scores EXCEPT ![r] = told]
          /\ trace' = IF taken = {} THEN trace ELSE [trace EXCEPT ![x] = "ended"]
    BY DEF Score
  <2>2. told \subseteq S /\ taken \subseteq E
    BY <2>1, TakenFacts
  <2>3. told \in SUBSET ScoresOf(verdict[r])
    BY <2>2
  <2>. QED
    BY <2>1, <2>2, <2>3
<1>2. /\ Moves(r) /\ pc'[r] = "done" /\ \A q \in Run \ {r} : pc'[q] = pc[q]
      /\ kind[r] = "eval" /\ verdict[r] # None /\ reply[r] # None
  BY <1>1 DEF Moves, Busy, Ended, Suspended, IInv, TypeOK, Answered, Replied, Told, Judged, Streaming
<1>3. /\ trace' \in [Trace -> {"none", "open", "ended"}]
      /\ \A x \in Trace : trace'[x] = "none" <=> trace[x] = "none"
      /\ \A q \in Run : trace'[<<q, "run">>] = trace[<<q, "run">>]
  <2>1. /\ <<r, "eval">> \in Trace
        /\ \A q \in Run : <<q, "run">> \in Trace /\ <<q, "run">> # <<r, "eval">>
    BY TraceFacts
  <2>. QED
    BY <1>0, <2>1 DEF IInv, TypeOK
<1>4. /\ scores' \in [Run -> SUBSET ({"sql_validity", "execution_accuracy"} \X BOOLEAN)]
      /\ scores'[r] \subseteq ScoresOf(verdict[r])
      /\ \A q \in Run \ {r} : scores'[q] = scores[q]
  <2>1. verdict[r] \in Verdict
    BY <1>2 DEF IInv, TypeOK
  <2>2. ScoresOf(verdict[r]) \in SUBSET ({"sql_validity", "execution_accuracy"} \X BOOLEAN)
    BY <2>1 DEF ScoresOf, Verdict
  <2>. HIDE DEF ScoresOf
  <2>3. PICK told \in SUBSET ScoresOf(verdict[r]) : scores' = [scores EXCEPT ![r] = told]
    BY <1>0
  <2>. QED
    BY <2>2, <2>3 DEF IInv, TypeOK
<1>5. Begun' /\ GenerationsAreOwn'
  BY <1>1, <1>2, GenerationsKept
<1>6. Known' /\ Contexts'
  BY <1>1, <1>2, <1>3, OutsideKeeps DEF Live, Suspended
<1>7. TypeOK'
  BY <1>1, <1>3, <1>4 DEF IInv, TypeOK, Ended
<1>8. Unreturned'
  BY <1>1, <1>2, <1>3 DEF IInv, Traced, Unreturned, Live, Suspended
<1>9. Threads' /\ Concluded'
  BY <1>1, <1>2, ThreadsKept, ConcludedKept
<1>10. Relayed' /\ Own' /\ Replied'
  BY <1>1, <1>2 DEF IInv, Answered, Relayed, Own, Replied, Streaming, LastResult, Suspended
<1>11. StatusTellsTheReply'
  BY <1>1, <1>2, <1>3 DEF IInv, Answered, StatusTellsTheReply, Returned, Given
<1>12. Sent' /\ Judged'
  BY <1>1, <1>2, <1>4 DEF IInv, Told, Sent, Judged
<1>. QED
  BY <1>5, <1>6, <1>7, <1>8, <1>9, <1>10, <1>11, <1>12 DEF IInv, Traced, Answered, Told

LEMMA ReportKeeps ==
  ASSUME IInv, Report
  PROVE  IInv'
<1>1. /\ \A r \in Run : kind[r] = "eval" => pc[r] = "done"
      /\ exit' = IF Cases # {} /\ Passes({verdict[r] : r \in Cases}) THEN "passed" ELSE "failed"
      /\ UNCHANGED <<run, channel, tracing, streams, reply, client, verdict, scores>>
  BY DEF Report
<1>2. Traced' /\ Answered'
  BY <1>1, RunUntouched
<1>3. TypeOK'
  BY <1>1 DEF IInv, TypeOK, run, tracing, streams, client
<1>4. Sent' /\ Judged'
  BY <1>1 DEF IInv, Told, Sent, Judged, run, streams, client
<1>5. Concluded'
  <2>1. ASSUME NEW r \in Run, kind[r] = "eval", verdict[r] # None,
               Passes({verdict[q] : q \in Cases})
        PROVE  verdict[r].valid /\ verdict[r].sql /\ verdict[r].rows
    BY <2>1 DEF Passes, Cases
  <2>. QED
    BY <1>1, <2>1 DEF Concluded, run
<1>. QED
  BY <1>2, <1>3, <1>4, <1>5 DEF IInv, Told

-----------------------------------------------------------------------------
(***************************************************************************)
(* The start of a run, and all steps.                                      *)
(***************************************************************************)
LEMMA BeginKeeps ==
  ASSUME IInv, NEW r \in Run, NEW k \in Kind, NEW t \in Thread \cup {r}, Begin(r, k, t)
  PROVE  IInv'
<1>. DEFINE p == PlaceOf(r, k)
<1>1. /\ pc[r] = "new" /\ Free(p)
      /\ k = "eval" => exit = None
      /\ \A q \in Run : on[q] = t /\ q # r => pc[q] \in Ended \cup {"new"}
      /\ previous' = [previous EXCEPT ![r] = current[p]]
      /\ mixed' = IF \E q \in Run : place[q] = p /\ pc[q] \in Suspended
                  THEN mixed \cup {p} ELSE mixed
      /\ kind' = [kind EXCEPT ![r] = k]
      /\ place' = [place EXCEPT ![r] = p]
      /\ on' = [on EXCEPT ![r] = t]
      /\ pc' = [pc EXCEPT ![r] = IF k \in {"stream", "astream"} THEN "yielded" ELSE "node"]
      /\ last' = [last EXCEPT ![r] = IF k \in {"stream", "astream"} THEN channel[t] ELSE None]
      /\ UNCHANGED <<asked, paused, channel, status, generations, held, reply, wire, away, shown,
                     verdict, scores, exit>>
  BY DEF Begin, client, cases
<1>2. PICK opened \in Taken(Opens(r, k)) :
        /\ trace' = [x \in Trace |-> IF x \in opened THEN "open" ELSE trace[x]]
        /\ current' = IF k = "resume" THEN current
                      ELSE [current EXCEPT ![p] = Started(r, <<r, "run">> \in opened)]
  BY DEF Begin
<1>3. p \in Context
  BY DEF PlaceOf, Context
<1>4. /\ trace' \in [Trace -> {"none", "open", "ended"}]
      /\ \A x \in Trace : trace[x] # "none" => trace'[x] # "none"
      /\ \A x \in Trace : trace'[x] = "ended" => trace[x] = "ended"
      /\ <<r, "run">> \in opened => trace'[<<r, "run">>] = "open"
  BY <1>2, TraceFacts DEF IInv, TypeOK
<1>5. current \in [Context -> {x \in Trace : trace[x] # "none"} \cup {None}]
  BY DEF IInv, TypeOK
<1>6. \/ current' = current /\ k = "resume"
      \/ current' = [current EXCEPT ![p] = None]
      \/ /\ current' = [current EXCEPT ![p] = <<r, "run">>]
         /\ trace'[<<r, "run">>] = "open" /\ k # "resume"
  BY <1>2, <1>4 DEF Started
<1>. HIDE DEF p
<1>7. current' \in [Context -> {x \in Trace : trace'[x] # "none"} \cup {None}]
  <2>1. current \in [Context -> {x \in Trace : trace'[x] # "none"} \cup {None}]
    BY <1>4, <1>5
  <2>. QED
    BY <1>6, <2>1, TraceFacts
<1>8. /\ \A q \in Run \ {r} : /\ pc'[q] = pc[q] /\ kind'[q] = kind[q] /\ place'[q] = place[q]
                              /\ on'[q] = on[q] /\ previous'[q] = previous[q] /\ last'[q] = last[q]
      /\ kind'[r] = k /\ place'[r] = p /\ on'[r] = t /\ previous'[r] = current[p]
      /\ pc'[r] = (IF k \in {"stream", "astream"} THEN "yielded" ELSE "node")
      /\ last'[r] = (IF k \in {"stream", "astream"} THEN channel[t] ELSE None)
      /\ pc'[r] \in {"yielded", "node"}
  BY <1>1 DEF IInv, TypeOK
<1>9. TypeOK'
  <2>1. channel[t] \in Result \cup {None} /\ t \in Thread \cup Run
    BY DEF IInv, TypeOK
  <2>2. mixed' \subseteq Context
    BY <1>1, <1>3 DEF IInv, TypeOK
  <2>3. current[p] \in Trace \cup {None}
    BY <1>3, <1>5
  <2>. QED
    BY <1>1, <1>3, <1>4, <1>7, <2>1, <2>2, <2>3 DEF IInv, TypeOK, Suspended
<1>10. Known'
  <2>1. current[p] # None => current[p] \in Trace /\ trace[current[p]] # "none"
    BY <1>3, <1>5
  <2>2. \A q \in Run : previous[q] # None => previous[q] \in Trace /\ trace[previous[q]] # "none"
    BY DEF IInv, TypeOK, Traced, Known
  <2>. QED
    BY <1>4, <1>8, <2>1, <2>2 DEF Known
<1>11. Contexts'
  <2>1. mixed \subseteq mixed'
    BY <1>1
  <2>2. ASSUME p \notin mixed' PROVE \A q \in Run : place[q] = p => ~Busy(q)
    BY <1>1, <2>2 DEF Free, Busy
  <2>3. ASSUME p \notin mixed' PROVE current[p] = None
    BY <1>3, <2>1, <2>2, <2>3 DEF IInv, Traced, Contexts, Live, Suspended, Busy, Ended
  <2>4. ASSUME NEW c \in Context \ mixed' PROVE
          \A q, s \in Run : place'[q] = c /\ place'[s] = c /\ Busy(q)' /\ Busy(s)' => q = s
    BY <1>8, <2>1, <2>2, <2>4 DEF IInv, Traced, Contexts, Busy
  <2>5. ASSUME NEW c \in Context \ mixed' PROVE
          \A q \in Run : place'[q] = c /\ pc'[q] \in Live => previous'[q] = None
    BY <1>8, <2>1, <2>3, <2>5 DEF IInv, Traced, Contexts, Live, Suspended
  <2>6. ASSUME NEW c \in Context \ mixed', current'[c] # None PROVE
          \E q \in Run : /\ place'[q] = c /\ pc'[q] \in Live /\ kind'[q] # "resume"
                         /\ current'[c] = <<q, "run">>
    <3>1. CASE c = p
      <4>1. current'[p] # None /\ current[p] = None
        BY <2>3, <2>6, <3>1
      <4>2. current'[p] = <<r, "run">> /\ k # "resume"
        BY <1>3, <1>5, <1>6, <4>1
      <4>. QED
        BY <1>8, <3>1, <4>2 DEF Live, Suspended
    <3>2. CASE c # p
      <4>1. current'[c] = current[c]
        BY <1>5, <1>6, <3>2
      <4>2. PICK q \in Run : /\ place[q] = c /\ pc[q] \in Live /\ kind[q] # "resume"
                             /\ current[c] = <<q, "run">>
        BY <2>1, <2>6, <4>1 DEF IInv, Traced, Contexts
      <4>3. q # r
        BY <1>1, <4>2 DEF Live, Suspended
      <4>. QED
        BY <1>8, <4>1, <4>2, <4>3
    <3>. QED
      BY <3>1, <3>2
  <2>. QED
    BY <2>4, <2>5, <2>6 DEF Contexts, Live, Suspended
<1>12. Unreturned'
  <2>1. \A q \in Run : trace'[<<q, "run">>] = "ended" => trace[<<q, "run">>] = "ended"
    BY <1>4, TraceFacts
  <2>. QED
    BY <1>1, <1>8, <2>1 DEF IInv, Traced, Unreturned, Live, Suspended
<1>13. \A g \in generations : g.by \in Run \ {r}
  BY <1>1 DEF IInv, TypeOK, Generation, Traced, Begun
<1>14. Begun' /\ GenerationsAreOwn'
  BY <1>1, <1>8, <1>13 DEF IInv, Traced, Begun, GenerationsAreOwn
<1>15. Threads'
  BY <1>1, <1>8 DEF IInv, Answered, Threads, Busy
<1>16. reply[r] = None
  BY <1>1 DEF IInv, Traced, Unreturned
<1>17. Relayed' /\ Own' /\ Replied'
  <2>1. Relayed'
    <3>1. held[r] = None
      BY <1>1 DEF IInv, Answered, Relayed
    <3>. QED
      BY <1>1, <1>8, <3>1 DEF IInv, Answered, Relayed, LastResult, Suspended
  <2>2. Own'
    BY <1>1, <1>8, <1>16 DEF IInv, Answered, Own, Streaming
  <2>3. Replied'
    BY <1>1, <1>8 DEF IInv, Answered, Replied, Streaming
  <2>. QED
    BY <2>1, <2>2, <2>3
<1>18. StatusTellsTheReply'
  <2>1. \A q \in Run \ {r} : trace'[<<q, "run">>] = "ended" => trace[<<q, "run">>] = "ended"
    BY <1>4, TraceFacts
  <2>2. trace'[<<r, "run">>] # "ended" /\ status[<<r, "run">>] = "unset"
    BY <1>8, <1>1, <1>12 DEF Unreturned, Live, Suspended
  <2>. QED
    BY <1>1, <1>8, <2>1, <2>2 DEF IInv, Answered, StatusTellsTheReply, Returned, Given
<1>19. Sent' /\ Judged'
  BY <1>1, <1>8 DEF IInv, Told, Sent, Judged
<1>20. Concluded'
  BY <1>1, <1>8, NothingFacts DEF IInv, Told, Concluded
<1>. QED
  BY <1>9, <1>10, <1>11, <1>12, <1>14, <1>15, <1>17, <1>18, <1>19, <1>20
  DEF IInv, Traced, Answered, Told

LEMMA NextIInv == IInv /\ [Next]_vars => IInv'
<1>. SUFFICES ASSUME IInv, [Next]_vars PROVE IInv'
  OBVIOUS
<1>1. ASSUME NEW r \in Run, BeginSome(r) PROVE IInv'
  BY <1>1, BeginKeeps DEF BeginSome
<1>2. ASSUME NEW r \in Run, Step(r), ~BeginSome(r) PROVE IInv'
  BY <1>2, AskLlmKeeps, LlmAnswersKeeps, RaisesKeep, GraphEndsKeeps, TakeSnapshotKeeps,
     ForwardSnapshotKeeps, ReturnKeeps, CloseStreamKeeps, DropsKeep, ClientKeeps, JudgeKeeps,
     JudgeRaisesKeeps, ScoreKeeps
  DEF Step
<1>3. CASE UNCHANGED vars
  <2>1. UNCHANGED <<run, channel, tracing, streams, reply>>
    BY <1>3 DEF vars
  <2>2. Traced' /\ Answered'
    BY <2>1, RunUntouched
  <2>3. TypeOK'
    BY <1>3 DEF IInv, TypeOK, vars, run, tracing, streams, client, cases
  <2>4. Told'
    BY <1>3 DEF IInv, Told, Sent, Judged, Concluded, vars, run, streams, client, cases
  <2>. QED
    BY <2>2, <2>3, <2>4 DEF IInv
<1>. QED
  BY <1>1, <1>2, <1>3, ReportKeeps DEF Next

\* In a behaviour of Tracing the invariant always holds.
THEOREM TracingInvariance == Spec => []IInv
BY InitIInv, NextIInv, PTL DEF Spec

\* The state of runs, traces, streams and cases has its types.
THEOREM TypeCorrectness == Spec => []TypeOK
BY TracingInvariance, PTL DEF IInv

\* Observability: the LLM calls of a run are recorded on its own trace, before that
\* has ended, unless a script takes turns between its streams.
THEOREM OwnGenerations == Spec => []GenerationsAreOwn
BY TracingInvariance, PTL DEF IInv, Traced

\* Observability: a trace that has ended tells what the caller was told.
THEOREM ToldStatus == Spec => []StatusTellsTheReply
BY TracingInvariance, PTL DEF IInv, Answered

\* The client shows the result of its own question, and the trace agrees.
THEOREM ShownAnswers == Spec => []ShownIsTheAnswer
<1>1. IInv => ShownIsTheAnswer
  <2>. SUFFICES ASSUME IInv, NEW r \in Run, shown[r] \in Result
                PROVE  /\ pc[r] = "done"
                       /\ r \notin paused => shown[r].of = r
                       /\ status[<<r, "run">>] \in
                            {"unset", IF shown[r].ok THEN "success" ELSE "error"}
    BY DEF ShownIsTheAnswer
  <2>1. kind[r] = "astream" /\ pc[r] = "done" /\ shown[r] = held[r] /\ last[r] = held[r]
    BY DEF IInv, Told, Sent, Answered, Relayed
  <2>2. r \notin paused => shown[r].of = r
    BY <2>1 DEF IInv, Answered, Own, Streaming
  <2>3. Given(r) = shown[r] /\ shown[r] # None
    BY <2>1, NothingFacts DEF Given
  <2>4. status[<<r, "run">>] # "unset" => (status[<<r, "run">>] = "success" <=> shown[r].ok)
    BY <2>3 DEF IInv, Answered, StatusTellsTheReply
  <2>5. status[<<r, "run">>] \in {"unset", "success", "error"}
    BY TraceFacts DEF IInv, TypeOK
  <2>. QED
    BY <2>1, <2>2, <2>4, <2>5
<1>. QED
  BY <1>1, TracingInvariance, PTL

\* The evaluation exits with 0 only if its cases were answered and scored well.
THEOREM PassedSuites == Spec => []PassedMeansAnswered
<1>1. IInv => PassedMeansAnswered
  <2>. SUFFICES ASSUME IInv, exit = "passed", NEW r \in Cases
                PROVE  /\ reply[r].ok
                       /\ \A w \in {"sql_validity", "execution_accuracy"} : <<w, FALSE>> \notin scores[r]
    BY DEF PassedMeansAnswered
  <2>1. r \in Run /\ kind[r] = "eval" /\ verdict[r] # None
    BY DEF Cases
  <2>2. verdict[r].valid /\ verdict[r].sql /\ verdict[r].rows /\ verdict[r].valid = reply[r].ok
    BY <2>1 DEF IInv, Told, Judged, Concluded
  <2>3. scores[r] \subseteq ScoresOf(verdict[r])
    BY <2>1 DEF IInv, Told, Judged
  <2>4. ScoresOf(verdict[r]) = {<<"sql_validity", TRUE>>, <<"execution_accuracy", TRUE>>}
    BY <2>2 DEF ScoresOf
  <2>5. ASSUME NEW w \in {"sql_validity", "execution_accuracy"} PROVE <<w, FALSE>> \notin scores[r]
    <3>1. <<w, FALSE>> # <<"sql_validity", TRUE>> /\ <<w, FALSE>> # <<"execution_accuracy", TRUE>>
      OBVIOUS
    <3>. QED
      BY <2>3, <2>4, <3>1
  <2>. QED
    BY <2>2, <2>5
<1>. QED
  BY <1>1, TracingInvariance, PTL
=============================================================================
