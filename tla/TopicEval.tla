----------------------------- MODULE TopicEval -----------------------------
(***************************************************************************)
(* `runtime topics eval` (commands/topic_eval.rs): the rows of a CSV are   *)
(* checked, then scanned one request each, at most Concurrency in flight   *)
(* and at most `rate` dispatched in any second; the answers come in any    *)
(* order.  The first scan that does not complete, or a signal, stops the   *)
(* dispatch; the scans in flight are awaited and no metrics are printed.   *)
(*                                                                         *)
(* A second is Second ticks; of a dispatch only its age matters, up to one *)
(* second.  A prompt is a row number.  Rows are dispatched in order, so the*)
(* oldest dispatch of the window is its lowest row.                        *)
(***************************************************************************)
EXTENDS Naturals, FiniteSets

CONSTANTS
    Total,        \* rows of the CSV
    Concurrency,  \* --concurrency
    Rates,        \* values of --rate; NoRate: not given
    NoRate,
    Second        \* ticks of a second (bound of the model)

ASSUME EvalAssumption ==
    /\ Total \in Nat \ {0}
    /\ Concurrency \in Nat \ {0}
    /\ NoRate \notin Nat
    /\ Rates \subseteq (Nat \ {0}) \cup {NoRate}
    /\ Second \in Nat \ {0}

Cases == 1 .. Total
Rows == [intent : {"block", "allow", "other"}, expected : BOOLEAN, scannable : BOOLEAN]

VARIABLES
    rows,         \* the CSV
    rate,
    pc,
    signal,       \* SIGINT or SIGTERM has arrived
    interrupted,  \* ... and the loop knows
    failure,      \* a scan did not complete
    sent,         \* rows 1 .. sent are dispatched
    flight,       \* the scans in flight
    window,       \* the dispatches rate_wait remembers
    triggered,    \* what the loop noted for each row
    completed,
    exit,
    age,          \* time since the dispatch of each row, at most Second
    said          \* what the service answered for each row

vars == <<rows, rate, pc, signal, interrupted, failure, sent, flight, window,
          triggered, completed, exit, age, said>>
input == <<rows, rate>>
loop == <<interrupted, failure, sent, flight, window, triggered, completed>>
world == <<signal, age, said>>

Answers == {"hit", "miss", "incomplete", "failed", "cancelled"}
Complete == {"hit", "miss"}
Exits == {"none", "badInput", "interrupted", "failed", "metrics"}

TypeOK ==
    /\ rows \in [Cases -> Rows]
    /\ rate \in Rates
    /\ pc \in {"load", "top", "wait", "drain", "report", "ended"}
    /\ signal \in BOOLEAN /\ interrupted \in BOOLEAN /\ failure \in BOOLEAN
    /\ sent \in 0 .. Total
    /\ flight \subseteq 1 .. sent
    /\ window \subseteq 1 .. sent
    /\ triggered \in [Cases -> {"none", "yes", "no"}]
    /\ completed \in 0 .. Total
    /\ exit \in Exits
    /\ age \in [Cases -> 0 .. Second]
    /\ said \in [Cases -> Answers \cup {"nothing"}]

Init ==
    /\ rows \in [Cases -> Rows]
    /\ rate \in Rates
    /\ pc = "load"
    /\ signal = FALSE /\ interrupted = FALSE /\ failure = FALSE
    /\ sent = 0
    /\ flight = {}
    /\ window = {}
    /\ triggered = [i \in Cases |-> "none"]
    /\ completed = 0
    /\ exit = "none"
    /\ age = [i \in Cases |-> 0]
    /\ said = [i \in Cases |-> "nothing"]

-----------------------------------------------------------------------------
(* load_prompts *)

\* Whether the topic should trigger on a row.
ShouldTrigger(i) == rows[i].expected <=> rows[i].intent = "block"
Positives == {i \in Cases : ShouldTrigger(i)}

\* One known intent, a positive and a negative row, and only prompts the
\* service takes.
Acceptable ==
    /\ \A i \in Cases : rows[i].intent = rows[1].intent /\ rows[i].intent # "other"
    /\ Positives \notin {{}, Cases}
    /\ \A i \in Cases : rows[i].scannable

Load ==
    /\ pc = "load"
    /\ IF Acceptable
       THEN pc' = "top" /\ UNCHANGED exit
       ELSE pc' = "report" /\ exit' = "badInput"
    /\ UNCHANGED <<input, loop, world>>

-----------------------------------------------------------------------------
(* The dispatch loop of eval *)

\* Variant of Fresh: the window is never cleared.
NeverFresh(w) == w

\* Variant of Fresh: a dispatch leaves the window a tick early.
FreshTooSoon(w) == {i \in w : age[i] + 1 < Second}

\* rate_wait drops the dispatches a second old or older.
Fresh(w) == {i \in w : age[i] < Second}

Free(w) == rate # NoRate => Cardinality(w) < rate

\* Variant of Open: a failed scan does not stop the dispatch.
OpenAfterFailure ==
    /\ ~interrupted /\ ~signal
    /\ sent < Total
    /\ Cardinality(flight) < Concurrency

\* Whether the loop goes on to dispatch; it looks at the session first.
Open ==
    /\ ~failure /\ ~interrupted /\ ~signal
    /\ sent < Total
    /\ Cardinality(flight) < Concurrency

\* The 60 s of a scan, and its second in the window, start here.
Dispatch ==
    /\ pc = "top" /\ Open /\ Free(Fresh(window))
    /\ sent' = sent + 1
    /\ flight' = flight \cup {sent'}
    /\ window' = (IF rate = NoRate THEN window ELSE Fresh(window)) \cup {sent'}
    /\ UNCHANGED <<input, pc, interrupted, failure, triggered, completed, exit, world>>

\* The window is full: wait for its oldest dispatch, an answer or a signal.
Throttle ==
    /\ pc = "top" /\ Open /\ ~Free(Fresh(window))
    /\ window' = Fresh(window)
    /\ pc' = "wait"
    /\ UNCHANGED <<input, interrupted, failure, sent, flight, triggered, completed, exit, world>>

WindowMoved ==
    /\ pc = "wait" /\ \E i \in window : age[i] = Second /\ \A j \in window : i <= j
    /\ pc' = "top"
    /\ UNCHANGED <<input, loop, exit, world>>

SignalSeen ==
    /\ pc = "wait" /\ signal
    /\ interrupted' = TRUE
    /\ pc' = "top"
    /\ UNCHANGED <<input, failure, sent, flight, window, triggered, completed, exit, world>>

\* Nothing more to dispatch now: the next answer decides.
Drain ==
    /\ pc = "top" /\ ~Open
    /\ interrupted' = (interrupted \/ signal)
    /\ pc' = "drain"
    /\ UNCHANGED <<input, failure, sent, flight, window, triggered, completed, exit, world>>

\* Variant of Note: verdicts are kept in the order in which they arrive.
NoteInOrder(i, a) ==
    /\ completed' = completed + 1
    /\ triggered' = [triggered EXCEPT ![completed'] = IF a = "hit" THEN "yes" ELSE "no"]

\* A scan that completed: its verdict, at its row.
Note(i, a) ==
    /\ completed' = completed + 1
    /\ triggered' = [triggered EXCEPT ![i] = IF a = "hit" THEN "yes" ELSE "no"]

\* Progress::record.
Record(i, a) ==
    /\ IF a \in Complete THEN Note(i, a) ELSE UNCHANGED <<triggered, completed>>
    /\ interrupted' = (interrupted \/ a = "cancelled")
    /\ failure' = (failure \/ a \in {"incomplete", "failed"})

\* The answer of scan i; only a signal cancels one.
Answered(i) ==
    /\ pc \in {"wait", "drain"}
    /\ i \in flight
    /\ \E a \in Answers :
         /\ a = "cancelled" => signal
         /\ said' = [said EXCEPT ![i] = a]
         /\ Record(i, a)
    /\ flight' = flight \ {i}
    /\ pc' = "top"
    /\ UNCHANGED <<input, sent, window, exit, signal, age>>

Finished ==
    /\ pc = "drain" /\ flight = {}
    /\ pc' = "report"
    /\ exit' = IF interrupted THEN "interrupted" ELSE IF failure THEN "failed" ELSE "metrics"
    /\ UNCHANGED <<input, loop, world>>

\* execute: a signal turns any result into an interruption.
Report ==
    /\ pc = "report"
    /\ pc' = "ended"
    /\ exit' = IF signal THEN "interrupted" ELSE exit
    /\ UNCHANGED <<input, loop, world>>

-----------------------------------------------------------------------------
(* The environment *)

Signal ==
    /\ pc # "ended" /\ ~signal
    /\ signal' = TRUE
    /\ UNCHANGED <<input, pc, loop, exit, age, said>>

Tick ==
    /\ pc # "ended"
    /\ \E i \in 1 .. sent : age[i] < Second
    /\ age' = [i \in Cases |-> IF i <= sent /\ age[i] < Second THEN age[i] + 1 ELSE age[i]]
    /\ UNCHANGED <<input, pc, loop, exit, signal, said>>

Step ==
    \/ Load \/ Dispatch \/ Throttle \/ WindowMoved \/ SignalSeen
    \/ Drain \/ Finished \/ Report
    \/ \E i \in Cases : Answered(i)

Next == Step \/ Signal \/ Tick

\* The loop runs, every scan is answered or runs into its 60 s deadline, and
\* time passes.
Fairness == WF_vars(Step) /\ WF_vars(Tick)

Spec == Init /\ [][Next]_vars /\ Fairness

-----------------------------------------------------------------------------
(* Metrics *)

Triggered == {i \in Cases : triggered[i] = "yes"}

\* metrics: the four counts the ratios are made of.
Metrics ==
    [tp |-> Cardinality(Positives \cap Triggered),
     fn |-> Cardinality(Positives \ Triggered),
     fp |-> Cardinality(Triggered \ Positives),
     tn |-> Cardinality(Cases \ (Positives \cup Triggered))]

-----------------------------------------------------------------------------
(* Properties *)

\* Never more than Concurrency scans in flight, nor more than `rate`
\* dispatches in a second, wherever that second begins.
WithinLimits ==
    /\ Cardinality(flight) <= Concurrency
    /\ rate # NoRate => Cardinality({i \in 1 .. sent : age[i] < Second}) <= rate

\* What a finished eval says is so.  Metrics are those of the service's own
\* verdicts on every row; a failure counts the scans sent and completed; and
\* no scan is left running.
OutcomeTrue ==
    pc = "ended" =>
        /\ flight = {}
        /\ exit = "metrics" =>
             /\ \A i \in Cases : said[i] \in Complete
             /\ Metrics.tp = Cardinality({i \in Positives : said[i] = "hit"})
             /\ Metrics.fn = Cardinality({i \in Positives : said[i] = "miss"})
             /\ Metrics.fp = Cardinality({i \in Cases \ Positives : said[i] = "hit"})
             /\ Metrics.tn = Cardinality({i \in Cases \ Positives : said[i] = "miss"})
        /\ exit = "failed" =>
             /\ \E i \in 1 .. sent : said[i] \notin Complete
             /\ completed = Cardinality({i \in 1 .. sent : said[i] \in Complete})

\* Once a scan has not completed, or was cancelled, nothing more is sent.
StopsAtOnce ==
    [][(\E i \in Cases : said[i] \notin Complete \cup {"nothing"}) => UNCHANGED sent]_vars

\* An eval ends, whatever the rate, the answers and their order.
EvalEnds == <>(pc = "ended")

=============================================================================
