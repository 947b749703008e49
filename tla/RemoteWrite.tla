---------------------------- MODULE RemoteWrite ----------------------------
(***************************************************************************)
(* One management write (POST, PUT, DELETE) as the commands see it         *)
(* (writes.rs), and what a command tells its user about the writes it made *)
(* (the outcome lines and interrupt contexts, and `execute` in lib.rs).    *)
(*                                                                         *)
(* A command can have a few effects on the service, named by Effects.  A   *)
(* message is modelled by what it claims of each: "yes", "no" or "maybe".  *)
(***************************************************************************)

CONSTANT Effects

\* How the SDK call ends: answered, refused, refused with a 401, a 2xx that
\* cannot be read, no usable answer (5xx, transport, deadline), a failure
\* before it was sent, cancelled before and after it was sent.
Answers == {"ok", "rejected", "unauthorized", "unreadable", "unknown", "local",
            "unsent", "cancelled"}

Interrupted == {"unsent", "cancelled"}
Carried == {"ok", "unreadable"}
InDoubt == {"unknown", "cancelled"}

\* A cancelled session ends its calls; nothing else does.
Possible(signalled) == IF signalled THEN Interrupted ELSE Answers \ Interrupted

\* attempt: a write refused with a 401 is sent once more.
Replays(a, replayed) == a = "unauthorized" /\ ~replayed

-----------------------------------------------------------------------------
(* What a message claims *)

Claims == [Effects -> {"yes", "no", "maybe"}]

Claim(yes, maybe) ==
    [e \in Effects |->
        IF e \in maybe THEN "maybe" ELSE IF e \in yes THEN "yes" ELSE "no"]

NothingChanged == Claim({}, {})

\* Variant of Told: an answer that cannot be read counts as a refusal.
UnreadableAsRefused(a, done, e) ==
    IF a \in InDoubt THEN Claim(done, {e}) ELSE Claim(done, {})

\* describe and in_contexts: the failed write of effect e, after the effects
\* `done`.
Told(a, done, e) ==
    IF a \in InDoubt THEN Claim(done, {e})
    ELSE IF a = "unreadable" THEN Claim(done \cup {e}, {})
    ELSE Claim(done, {})

\* What a command returns: "ok", "error" or "interrupted", and its message.
Results == [kind : {"none", "ok", "error", "interrupted"}, says : Claims]
NoResult == [kind |-> "none", says |-> NothingChanged]
Ok(says) == [kind |-> "ok", says |-> says]
Failed(a, says) == [kind |-> IF a \in Interrupted THEN "interrupted" ELSE "error", says |-> says]

\* execute: after a signal every result but an interruption of the command's
\* own is replaced by "the change was saved" or the context set last.
Printed(result, signalled, committed, saved, context) ==
    IF signalled /\ result.kind # "interrupted"
    THEN [kind |-> "interrupted", says |-> IF committed THEN saved ELSE context]
    ELSE result

\* Whether a message is true, given the effects the command had and those of
\* its writes whose outcome it never learned.
True(says, did, doubt) ==
    \A e \in Effects : /\ says[e] = "yes" => e \in did
                       /\ says[e] = "no" => e \notin did \cup doubt

=============================================================================
