----------------------------- MODULE KeySaving ------------------------------
(***************************************************************************)
(* The commands whose answer holds a value that is shown only once, which  *)
(* goes into a new private file: `runtime api-keys create` and             *)
(* `regenerate` (commands/runtime_keys.rs, runtime/keys.rs); the gateway's *)
(* keys and deployments follow the same protocol (gateway/secrets.rs,      *)
(* commands/gateway_writes.rs).  And `runtime api-keys delete`.            *)
(*                                                                         *)
(* A temporary is reserved next to the file before the request and linked  *)
(* to its name afterwards, never over a file that is there.  Nothing       *)
(* between the answer and the link waits, so no signal is seen there.  A   *)
(* failed sync changes nothing but the warnings.                           *)
(***************************************************************************)
EXTENDS RuntimeService

VARIABLE files   \* at: the value in each file, 0 if there is none;
                 \* temps: the temporaries, and the value in each, or 0

FilesTyped ==
    /\ files.at \in [KeyPaths -> 0 .. MaxId]
    /\ files.temps \subseteq Procs \X (0 .. MaxId)

NoFiles == [at |-> [k \in KeyPaths |-> 0], temps |-> {}]

WritesKey(p) == Kind(p) \in {"keyCreate", "keyRotate"}

Path(p) == proc[p].cmd.path

\* Drop for Reservation.
WithoutTemp(p) == {t \in files.temps : t[1] # p}
Dropped(p) == [files EXCEPT !.temps = WithoutTemp(p)]

\* check_new, and the client; a rotation then asks.
CheckKeyFile(p) ==
    /\ proc[p].pc = "start" /\ WritesKey(p)
    /\ Move(p, IF files.at[Path(p)] # 0 THEN Stop(p)
               ELSE At(p, IF Kind(p) = "keyRotate" /\ ~proc[p].cmd.force
                          THEN "ask" ELSE "reserve"))
    /\ UNCHANGED files

\* reserve_new and the token.
ReserveKey(p) ==
    /\ proc[p].pc = "reserve"
    /\ \/ p \notin signal /\ Move(p, At(p, "writeKey"))
          /\ files' = [files EXCEPT !.temps = @ \cup {<<p, 0>>}]
       \/ (Move(p, Stop(p)) \/ ReadFails(p)) /\ UNCHANGED files

KeyEffect(p) ==
    CASE Kind(p) = "keyCreate" -> <<"makeKey", Path(p)>>
      [] Kind(p) = "keyRotate" -> <<"rotateKey", proc[p].cmd.id>>
      [] Kind(p) = "keyDelete" -> <<"dropKey", proc[p].cmd.id>>

\* Variant of AnswerRead: the context of the signal is set with the file.
AnswerUnnoted(p) == [At(p, "saveKey") EXCEPT !.id = svc.next]

\* The answer of a key write: its value, and what a signal now reports.
AnswerRead(p) ==
    [At(p, "saveKey") EXCEPT !.id = svc.next, !.context = Claim({KeyEffect(p)}, {})]

\* post_key, one attempt; any failure drops the reservation.
WriteKey(p) ==
    /\ proc[p].pc = "writeKey"
    /\ Send(p, [by |-> p, effect |-> KeyEffect(p)], "writeKey",
            [a \in Answers |->
              IF a # "ok" THEN Exit(p, Failed(a, Told(a, {}, KeyEffect(p))))
              ELSE IF WritesKey(p) THEN AnswerRead(p)
              ELSE Done(p, Claim({KeyEffect(p)}, {}))])
    /\ files' = IF proc'[p].pc = "exit" THEN Dropped(p) ELSE files

\* Variant of Links: an existing file is replaced.
LinksOver(p) == TRUE

\* link: never over a file.
Links(p) == files.at[Path(p)] = 0

\* The value is in the file, or kept in the temporary: noted for a signal.
Stored(p, where, result) ==
    LET says == Claim({KeyEffect(p), <<where, Path(p)>>}, {})
    IN  /\ Set(p, [Exit(p, [kind |-> result, says |-> says]) EXCEPT !.context = says])
        /\ did' = [did EXCEPT ![p] = @ \cup {<<where, Path(p)>>}]
        /\ UNCHANGED <<svc, wire, signal, doubt>>

\* save_answer: the answer has no value, or it cannot be written; it is linked
\* (and the rest of the answer may be unreadable); or it stays in the
\* temporary.
SaveKey(p) ==
    /\ proc[p].pc = "saveKey"
    /\ \/ /\ Move(p, Exit(p, Failed("unreadable", Claim({KeyEffect(p)}, {}))))
          /\ files' = Dropped(p)
       \/ /\ Links(p)
          /\ \E result \in {"ok", "error"} : Stored(p, "saveKey", result)
          /\ files' = [Dropped(p) EXCEPT !.at[Path(p)] = proc[p].id]
       \/ /\ Stored(p, "keepKey", "error")
          /\ files' = [files EXCEPT !.temps = WithoutTemp(p) \cup {<<p, proc[p].id>>}]

\* A key command that has its answer tells where the value is, and it is
\* there; a temporary stays only if it is told of.
ValueKept(p, says) ==
    LET saved == says[<<"saveKey", Path(p)>>] = "yes"
        kept == says[<<"keepKey", Path(p)>>] = "yes"
    IN  /\ saved => files.at[Path(p)] = proc[p].id
        /\ IF kept THEN <<p, proc[p].id>> \in files.temps
                   ELSE \A t \in files.temps : t[1] # p

=============================================================================
