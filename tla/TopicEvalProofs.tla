-------------------------- MODULE TopicEvalProofs --------------------------
(***************************************************************************)
(* Proofs about TopicEval, for every number of rows, every --concurrency,  *)
(* every --rate and every length of a second in ticks: the limits of the   *)
(* dispatch hold, the first scan that does not complete stops it, and what *)
(* a finished eval says is so.                                             *)
(*                                                                         *)
(* The rate limit is not inductive: rate_wait counts the dispatches it     *)
(* remembers, so the strengthening says that it remembers every dispatch   *)
(* of the last second (WindowOK).  Nor is the truth of the outcome, which  *)
(* is computed from the loop's own notes: SaidOK ties each note to what    *)
(* the service answered, whatever the order of the answers, CountOK the    *)
(* counter to the notes, and PhaseOK says why the loop may have ended.     *)
(***************************************************************************)
EXTENDS TopicEval, FiniteSetTheorems, TLAPS

\* rate_wait forgets no dispatch of the last second, and remembers no more
\* than the rate allows.
WindowOK ==
    rate # NoRate =>
        /\ Cardinality(window) <= rate
        /\ \A i \in 1 .. sent : age[i] < Second => i \in window

\* A row is unanswered before its dispatch and in flight; what the loop noted
\* of it is what the service answered.
SaidOK ==
    \A i \in Cases :
        /\ said[i] = "nothing" <=> (i > sent \/ i \in flight)
        /\ said[i] = "hit" <=> triggered[i] = "yes"
        /\ said[i] = "miss" <=> triggered[i] = "no"

\* The dispatch was stopped for a reason, and by every reason.
StopOK ==
    /\ failure <=> \E i \in Cases : said[i] \in {"incomplete", "failed"}
    /\ \A i \in Cases : said[i] = "cancelled" => interrupted

Noted == {i \in Cases : triggered[i] # "none"}
CountOK == completed = Cardinality(Noted)

\* Where the loop may be with what it has done.
PhaseOK ==
    /\ pc = "load" => sent = 0
    /\ pc = "drain" => failure \/ interrupted \/ sent = Total \/ flight # {}
    /\ pc \in {"report", "ended"} => flight = {}
    /\ pc \notin {"report", "ended"} => exit = "none"
    /\ exit = "metrics" => ~failure /\ ~interrupted /\ sent = Total
    /\ exit = "failed" => failure

\* The inductive invariant.
IInv ==
    /\ TypeOK
    /\ Cardinality(flight) <= Concurrency
    /\ WindowOK
    /\ SaidOK
    /\ StopOK
    /\ CountOK
    /\ PhaseOK

-----------------------------------------------------------------------------
(* The sets of rows that are counted *)

\* Sets of rows are finite, and a set of rows counts no more than all.
LEMMA RowsFinite ==
    ASSUME NEW S \in SUBSET Cases
    PROVE  IsFiniteSet(S) /\ Cardinality(S) \in Nat /\ Cardinality(S) <= Total
<1>1. Total \in Nat
  BY EvalAssumption
<1>2. IsFiniteSet(Cases) /\ Cardinality(Cases) = Total
  BY <1>1, FS_Interval DEF Cases
<1> QED
  BY <1>2, FS_Subset, FS_CardinalityType

\* The sets of the loop.
LEMMA LoopSets ==
    ASSUME TypeOK
    PROVE  /\ 1 .. sent \subseteq Cases /\ sent \in Nat /\ sent <= Total /\ Total \in Nat
           /\ flight \subseteq Cases /\ IsFiniteSet(flight) /\ Cardinality(flight) \in Nat
           /\ window \subseteq Cases /\ IsFiniteSet(window) /\ Cardinality(window) \in Nat
           /\ Noted \subseteq Cases /\ IsFiniteSet(Noted) /\ Cardinality(Noted) <= Total
<1>1. /\ 1 .. sent \subseteq Cases /\ sent \in Nat /\ sent <= Total /\ Total \in Nat
      /\ flight \subseteq Cases /\ window \subseteq Cases /\ Noted \subseteq Cases
  BY EvalAssumption DEF TypeOK, Cases, Noted
<1> QED
  BY <1>1, RowsFinite

\* A place is free for one more.
LEMMA OneMore ==
    ASSUME NEW S, NEW x, NEW n \in Nat, IsFiniteSet(S), Cardinality(S) < n
    PROVE  Cardinality(S \cup {x}) <= n
<1>1. /\ Cardinality(S) \in Nat
      /\ Cardinality(S \cup {x}) = IF x \in S THEN Cardinality(S) ELSE Cardinality(S) + 1
  BY FS_AddElement, FS_CardinalityType
<1> QED
  BY <1>1

\* rate_wait drops dispatches and adds none.
LEMMA FreshFacts ==
    ASSUME TypeOK
    PROVE  /\ Fresh(window) \subseteq window
           /\ IsFiniteSet(Fresh(window)) /\ Cardinality(Fresh(window)) \in Nat
           /\ Cardinality(Fresh(window)) <= Cardinality(window)
           /\ \A i \in window : age[i] < Second => i \in Fresh(window)
<1>1. Fresh(window) \subseteq window /\ \A i \in window : age[i] < Second => i \in Fresh(window)
  BY DEF Fresh
<1>2. IsFiniteSet(window) /\ IsFiniteSet(Fresh(window))
  BY <1>1, LoopSets, FS_Subset
<1> QED
  BY <1>1, <1>2, FS_Subset, FS_CardinalityType

-----------------------------------------------------------------------------
(* Init and the steps *)

\* An eval that has not started keeps the invariant.
LEMMA InitIInv == Init => IInv
<1> SUFFICES ASSUME Init PROVE IInv
  OBVIOUS
<1>1. /\ Total \in Nat \ {0} /\ Concurrency \in Nat \ {0} /\ Second \in Nat \ {0}
      /\ rate # NoRate => rate \in Nat
  BY EvalAssumption DEF Init
<1>2. TypeOK
  <2>1. /\ age \in [Cases -> 0 .. Second] /\ completed \in 0 .. Total /\ sent \in 0 .. Total
        /\ triggered \in [Cases -> {"none", "yes", "no"}]
        /\ said \in [Cases -> Answers \cup {"nothing"}]
    BY <1>1 DEF Init
  <2> QED
    BY <2>1 DEF Init, TypeOK, Exits
<1>3. Cardinality({}) = 0
  BY FS_EmptySet
<1>4. Cardinality(flight) <= Concurrency /\ WindowOK
  BY <1>1, <1>3 DEF Init, WindowOK
<1>5. SaidOK /\ StopOK
  BY <1>1 DEF Init, SaidOK, StopOK, Cases
<1>6. Noted = {} /\ CountOK
  BY <1>3 DEF Init, CountOK, Noted
<1>7. PhaseOK
  BY DEF Init, PhaseOK
<1> QED
  BY <1>2, <1>4, <1>5, <1>6, <1>7 DEF IInv

\* A dispatch.
LEMMA DispatchStep == IInv /\ Dispatch => IInv'
<1> SUFFICES ASSUME IInv, Dispatch PROVE IInv'
  OBVIOUS
<1> USE DEF IInv
<1>1. /\ pc = "top" /\ ~failure /\ ~interrupted /\ sent < Total /\ Free(Fresh(window))
      /\ Cardinality(flight) < Concurrency
      /\ sent' = sent + 1 /\ flight' = flight \cup {sent + 1}
      /\ window' = (IF rate = NoRate THEN window ELSE Fresh(window)) \cup {sent + 1}
      /\ rows' = rows /\ rate' = rate /\ pc' = pc /\ interrupted' = interrupted
      /\ failure' = failure /\ triggered' = triggered /\ completed' = completed
      /\ exit' = exit /\ signal' = signal /\ age' = age /\ said' = said
  BY DEF Dispatch, Open, input, world
<1>2. sent \in 0 .. Total /\ sent + 1 \in Cases /\ 1 .. sent' = (1 .. sent) \cup {sent + 1}
  BY <1>1, EvalAssumption DEF TypeOK, Cases
<1>3. TypeOK'
  <2>1. window' \subseteq 1 .. sent'
    BY <1>1, <1>2, FreshFacts DEF TypeOK
  <2> QED
    BY <1>1, <1>2, <2>1, EvalAssumption DEF TypeOK
<1>4. (Cardinality(flight) <= Concurrency)'
  <2>1. Cardinality(flight \cup {sent + 1}) <= Concurrency
    BY <1>1, LoopSets, OneMore, EvalAssumption
  <2> QED
    BY <1>1, <2>1
<1>5. WindowOK'
  <2> SUFFICES ASSUME rate # NoRate PROVE WindowOK'
    BY <1>1 DEF WindowOK
  <2>1. rate \in Nat /\ window' = Fresh(window) \cup {sent + 1}
    BY <1>1, EvalAssumption DEF TypeOK
  <2>2. Cardinality(window') <= rate
    <3>1. Cardinality(Fresh(window) \cup {sent + 1}) <= rate
      BY <1>1, <2>1, FreshFacts, OneMore DEF Free
    <3> QED
      BY <2>1, <3>1
  <2>3. \A i \in 1 .. sent' : age[i] < Second => i \in window'
    BY <1>2, <2>1, FreshFacts DEF WindowOK
  <2> QED
    BY <1>1, <2>2, <2>3 DEF WindowOK
<1>6. SaidOK' /\ StopOK'
  BY <1>1, <1>2 DEF SaidOK, StopOK, Cases
<1>7. CountOK' /\ PhaseOK'
  BY <1>1 DEF CountOK, Noted, PhaseOK
<1> QED
  BY <1>3, <1>4, <1>5, <1>6, <1>7

\* The answer of a scan.
LEMMA AnsweredStep == IInv /\ (\E i \in Cases : Answered(i)) => IInv'
<1> SUFFICES ASSUME IInv, NEW i \in Cases, Answered(i) PROVE IInv'
  OBVIOUS
<1> USE DEF IInv
<1>1. PICK a \in Answers :
        /\ said' = [said EXCEPT ![i] = a]
        /\ Record(i, a)
  BY DEF Answered
<1>2. /\ pc \in {"wait", "drain"} /\ i \in flight
      /\ flight' = flight \ {i} /\ pc' = "top"
      /\ rows' = rows /\ rate' = rate /\ sent' = sent /\ window' = window
      /\ exit' = exit /\ signal' = signal /\ age' = age
  BY DEF Answered, input
<1>3. /\ interrupted' = (interrupted \/ a = "cancelled")
      /\ failure' = (failure \/ a \in {"incomplete", "failed"})
  BY <1>1 DEF Record
<1>4. \A j \in Cases : said'[j] = IF j = i THEN a ELSE said[j]
  BY <1>1 DEF TypeOK
<1>5. said[i] = "nothing" /\ triggered[i] = "none"
  BY <1>2 DEF SaidOK, TypeOK
<1>6. \A j \in Cases : triggered'[j] =
        IF j = i THEN (CASE a = "hit" -> "yes" [] a = "miss" -> "no" [] OTHER -> "none")
        ELSE triggered[j]
  BY <1>1, <1>5 DEF Record, Note, Complete, TypeOK
<1>7. CountOK' /\ completed' \in 0 .. Total /\ triggered' \in [Cases -> {"none", "yes", "no"}]
  <2>1. triggered' \in [Cases -> {"none", "yes", "no"}]
    BY <1>1 DEF Record, Note, TypeOK
  <2>2. CASE a \in Complete
    <3>1. Noted' = Noted \cup {i} /\ i \notin Noted /\ completed' = completed + 1
      BY <1>1, <1>5, <1>6, <2>2 DEF Noted, Record, Note, Complete
    <3>2. Cardinality(Noted') = completed'
      BY <3>1, LoopSets, FS_AddElement DEF CountOK
    <3>3. Noted' \in SUBSET Cases
      BY DEF Noted
    <3> QED
      BY <2>1, <3>2, <3>3, RowsFinite, EvalAssumption DEF CountOK
  <2>3. CASE a \notin Complete
    <3>1. triggered' = triggered /\ completed' = completed
      BY <1>1, <2>3 DEF Record
    <3> QED
      BY <2>1, <3>1 DEF CountOK, Noted, TypeOK
  <2> QED
    BY <2>2, <2>3
<1>8. TypeOK'
  <2>1. said' \in [Cases -> Answers \cup {"nothing"}]
    BY <1>1 DEF TypeOK
  <2>2. interrupted' \in BOOLEAN /\ failure' \in BOOLEAN
    BY <1>3 DEF TypeOK
  <2> QED
    BY <1>2, <1>7, <2>1, <2>2 DEF TypeOK
<1>9. Cardinality(flight') <= Concurrency
  <2>1. flight' \subseteq flight
    BY <1>2
  <2>2. Cardinality(flight') <= Cardinality(flight) /\ Cardinality(flight') \in Nat
    BY <2>1, LoopSets, FS_Subset, FS_CardinalityType
  <2> QED
    BY <2>2, LoopSets, EvalAssumption
<1>10. WindowOK'
  BY <1>2 DEF WindowOK
<1>11. SaidOK'
  BY <1>2, <1>4, <1>6, LoopSets DEF SaidOK, Answers, TypeOK
<1>12. StopOK'
  BY <1>3, <1>4, <1>5 DEF StopOK
<1>13. PhaseOK'
  BY <1>2 DEF PhaseOK
<1> QED
  BY <1>7, <1>8, <1>9, <1>10, <1>11, <1>12, <1>13

\* Time passes.
LEMMA TickStep == IInv /\ Tick => IInv'
<1> SUFFICES ASSUME IInv, Tick PROVE IInv'
  OBVIOUS
<1> USE DEF IInv
<1>1. /\ age' = [i \in Cases |-> IF i <= sent /\ age[i] < Second THEN age[i] + 1 ELSE age[i]]
      /\ UNCHANGED <<rows, rate, pc, interrupted, failure, sent, flight, window, triggered,
                     completed, exit, signal, said>>
  BY DEF Tick, input, loop
<1>2. \A i \in Cases : age[i] \in 0 .. Second
  BY DEF TypeOK
<1>3. age' \in [Cases -> 0 .. Second]
  BY <1>1, <1>2, EvalAssumption
<1>4. \A i \in Cases : age'[i] < Second => age[i] < Second
  BY <1>1, <1>2, EvalAssumption
<1>5. WindowOK'
  BY <1>1, <1>4, LoopSets DEF WindowOK
<1> QED
  BY <1>1, <1>3, <1>5 DEF TypeOK, SaidOK, StopOK, CountOK, Noted, PhaseOK

\* The window is looked at.
LEMMA ThrottleStep == IInv /\ Throttle => IInv'
<1> SUFFICES ASSUME IInv, Throttle PROVE IInv'
  OBVIOUS
<1> USE DEF IInv
<1>1. /\ pc = "top" /\ pc' = "wait" /\ window' = Fresh(window)
      /\ UNCHANGED <<rows, rate, interrupted, failure, sent, flight, triggered, completed,
                     exit, signal, age, said>>
  BY DEF Throttle, input, world
<1>2. WindowOK'
  <2> SUFFICES ASSUME rate # NoRate PROVE WindowOK'
    BY <1>1 DEF WindowOK
  <2>1. rate \in Nat
    BY EvalAssumption DEF TypeOK
  <2>2. Cardinality(window') <= rate
    BY <1>1, <2>1, FreshFacts, LoopSets DEF WindowOK
  <2> QED
    BY <1>1, <2>2, FreshFacts DEF WindowOK
<1>3. TypeOK'
  BY <1>1, FreshFacts DEF TypeOK
<1> QED
  BY <1>1, <1>2, <1>3 DEF SaidOK, StopOK, CountOK, Noted, PhaseOK

\* The steps that move only the loop's place, its signal and its exit.
LEMMA LoopStep ==
    /\ IInv
    /\ Load \/ WindowMoved \/ SignalSeen \/ Drain \/ Finished \/ Report \/ Signal \/ UNCHANGED vars
    => IInv'
<1> SUFFICES ASSUME IInv,
                    Load \/ WindowMoved \/ SignalSeen \/ Drain \/ Finished \/ Report \/ Signal
                    \/ UNCHANGED vars
             PROVE  IInv'
  OBVIOUS
<1> USE DEF IInv
<1>1. /\ UNCHANGED <<rows, rate, failure, sent, flight, window, triggered, completed, age, said>>
      /\ interrupted => interrupted'
  BY DEF Load, WindowMoved, SignalSeen, Drain, Finished, Report, Signal, vars, input, loop, world,
         TypeOK
<1>2. TypeOK'
  BY <1>1 DEF Load, WindowMoved, SignalSeen, Drain, Finished, Report, Signal, vars, input, loop,
         world, TypeOK, Exits
<1>3. Cardinality(flight') <= Concurrency
  BY <1>1
<1>4. WindowOK' /\ SaidOK' /\ StopOK' /\ CountOK'
  BY <1>1 DEF WindowOK, SaidOK, StopOK, CountOK, Noted
<1>5. PhaseOK'
  <2>1. CASE Load
    BY <2>1, LoopSets DEF Load, PhaseOK, input, loop, world, TypeOK
  <2>2. CASE Drain
    <3>1. flight = {} => Cardinality(flight) = 0
      BY FS_EmptySet
    <3>2. sent' = sent /\ (~failure /\ ~interrupted' => sent = Total \/ flight # {})
      BY <2>2, <3>1, LoopSets, EvalAssumption DEF Drain, Open, TypeOK
    <3> QED
      BY <2>2, <3>2 DEF Drain, PhaseOK, input, world
  <2>3. CASE Finished
    BY <2>3 DEF Finished, PhaseOK, input, loop, world
  <2>4. CASE Report
    BY <2>4 DEF Report, PhaseOK, input, loop, world
  <2>5. CASE WindowMoved \/ SignalSeen \/ Signal \/ UNCHANGED vars
    BY <2>5 DEF WindowMoved, SignalSeen, Signal, vars, PhaseOK, input, loop, world
  <2> QED
    BY <2>1, <2>2, <2>3, <2>4, <2>5
<1> QED
  BY <1>2, <1>3, <1>4, <1>5

-----------------------------------------------------------------------------
(* Theorems *)

\* IInv holds in every state of an eval.
THEOREM Inductive == Spec => []IInv
<1>1. Init => IInv
  BY InitIInv
<1>2. IInv /\ [Next]_vars => IInv'
  BY DispatchStep, AnsweredStep, TickStep, ThrottleStep, LoopStep DEF Next, Step
<1> QED
  BY <1>1, <1>2, PTL DEF Spec

\* The variables keep their types: no row past the last is dispatched, and
\* no more scans complete than there are rows.
THEOREM TypeCorrect == Spec => []TypeOK
<1>1. IInv => TypeOK
  BY DEF IInv
<1> QED
  BY <1>1, Inductive, PTL

\* The limits of the dispatch loop and of rate_wait hold in every state.
THEOREM Limits == Spec => []WithinLimits
<1>1. IInv => WithinLimits
  <2> SUFFICES ASSUME IInv, rate # NoRate
               PROVE  Cardinality({i \in 1 .. sent : age[i] < Second}) <= rate
    BY DEF IInv, WithinLimits
  <2>1. {i \in 1 .. sent : age[i] < Second} \subseteq window
    BY DEF IInv, WindowOK
  <2>2. IsFiniteSet(window) /\ Cardinality(window) <= rate /\ rate \in Nat /\ Cardinality(window) \in Nat
    BY LoopSets, EvalAssumption DEF IInv, WindowOK, TypeOK
  <2>3. /\ Cardinality({i \in 1 .. sent : age[i] < Second}) <= Cardinality(window)
        /\ Cardinality({i \in 1 .. sent : age[i] < Second}) \in Nat
    BY <2>1, <2>2, FS_Subset, FS_CardinalityType
  <2> QED
    BY <2>2, <2>3
<1> QED
  BY <1>1, Inductive, PTL

\* Progress::record stops the dispatch with the answer it records.
THEOREM Stops == Spec => StopsAtOnce
<1>1. IInv /\ [Next]_vars =>
        [(\E i \in Cases : said[i] \notin Complete \cup {"nothing"}) => UNCHANGED sent]_vars
  <2> SUFFICES ASSUME IInv, [Next]_vars, NEW i \in Cases, said[i] \notin Complete \cup {"nothing"}
               PROVE  UNCHANGED sent
    OBVIOUS
  <2>1. failure \/ interrupted
    BY DEF IInv, StopOK, TypeOK, Answers, Complete
  <2>2. ~Dispatch
    BY <2>1 DEF Dispatch, Open
  <2> QED
    BY <2>2 DEF Next, Step, Load, Throttle, WindowMoved, SignalSeen, Drain, Finished, Report,
                Answered, Signal, Tick, vars, loop
<1> QED
  BY <1>1, Inductive, PTL DEF Spec, StopsAtOnce

\* The metrics are those of the service's verdicts, a failure names the scans
\* sent and completed, and nothing is left running.
THEOREM Outcome == Spec => []OutcomeTrue
<1>1. IInv => OutcomeTrue
  <2> SUFFICES ASSUME IInv, pc = "ended" PROVE OutcomeTrue
    BY DEF OutcomeTrue
  <2>1. flight = {}
    BY DEF IInv, PhaseOK
  <2>2. ASSUME exit = "metrics"
        PROVE  /\ \A i \in Cases : said[i] \in Complete
               /\ Metrics.tp = Cardinality({i \in Positives : said[i] = "hit"})
               /\ Metrics.fn = Cardinality({i \in Positives : said[i] = "miss"})
               /\ Metrics.fp = Cardinality({i \in Cases \ Positives : said[i] = "hit"})
               /\ Metrics.tn = Cardinality({i \in Cases \ Positives : said[i] = "miss"})
    <3>1. ~failure /\ ~interrupted /\ sent = Total
      BY <2>2 DEF IInv, PhaseOK
    <3>2. \A i \in Cases : said[i] \in Complete
      BY <2>1, <3>1, EvalAssumption DEF IInv, SaidOK, StopOK, TypeOK, Answers, Complete, Cases
    <3>3. \A i \in Cases : /\ i \in Triggered <=> said[i] = "hit"
                           /\ i \notin Triggered <=> said[i] = "miss"
      BY <3>2 DEF IInv, SaidOK, Triggered, Complete
    <3>4. /\ Positives \cap Triggered = {i \in Positives : said[i] = "hit"}
          /\ Positives \ Triggered = {i \in Positives : said[i] = "miss"}
          /\ Triggered \ Positives = {i \in Cases \ Positives : said[i] = "hit"}
          /\ Cases \ (Positives \cup Triggered) = {i \in Cases \ Positives : said[i] = "miss"}
      BY <3>3 DEF Positives, Triggered
    <3> QED
      BY <3>2, <3>4 DEF Metrics
  <2>3. ASSUME exit = "failed"
        PROVE  /\ \E i \in 1 .. sent : said[i] \notin Complete
               /\ completed = Cardinality({i \in 1 .. sent : said[i] \in Complete})
    <3>1. PICK i \in Cases : said[i] \in {"incomplete", "failed"}
      BY <2>3 DEF IInv, PhaseOK, StopOK
    <3>2. i \in 1 .. sent
      BY <3>1, LoopSets DEF IInv, SaidOK, Cases
    <3>3. Noted = {j \in 1 .. sent : said[j] \in Complete}
      <4>1. \A j \in Cases : triggered[j] # "none" <=> said[j] \in Complete
        BY DEF IInv, SaidOK, TypeOK, Complete
      <4>2. \A j \in Cases : said[j] \in Complete => j \in 1 .. sent
        BY LoopSets DEF IInv, SaidOK, Cases, Complete
      <4> QED
        BY <4>1, <4>2, LoopSets DEF IInv, Noted
    <3> QED
      BY <3>1, <3>2, <3>3 DEF IInv, CountOK, Complete
  <2> QED
    BY <2>1, <2>2, <2>3 DEF OutcomeTrue
<1> QED
  BY <1>1, Inductive, PTL

=============================================================================
