---------------------------- MODULE RuntimeEdits ----------------------------
(***************************************************************************)
(* The commands that change one topic or one profile: `runtime topics      *)
(* create|update|delete|apply|revert` and `runtime profiles                *)
(* create|update|delete` (commands/topic_write.rs, topic_assign.rs,        *)
(* profile_write.rs, and the topic edits of policy.rs).                    *)
(***************************************************************************)
EXTENDS RuntimeService

\* The topic, or the profile, of the command.
NamedTopics(p) == Named(svc.topics, proc[p].cmd.t)
NamedProfiles(p) == Highest(Named(svc.profiles, proc[p].cmd.n))
ReadProfile(p) == CHOOSE r \in proc[p].read : TRUE

\* resolve_topic, and the lookup of `topics create`, which goes on without one.
FindTopic(p) ==
    /\ proc[p].pc = "findTopic"
    /\ \/ p \notin signal /\ NamedTopics(p) # {}
          /\ \E t \in NamedTopics(p) :
               Move(p, [At(p, CASE Kind(p) = "topicsCreate" -> "write"
                                [] Kind(p) = "revert" /\ ~proc[p].cmd.force -> "ask"
                                [] OTHER -> "findProfile")
                        EXCEPT !.id = t.id, !.known = NamedTopics(p)])
       \/ p \notin signal /\ NamedTopics(p) = {}
          /\ Move(p, IF Kind(p) = "topicsCreate" THEN At(p, "write") ELSE Stop(p))
       \/ ReadFails(p)

\* The ids a topic of that name is referred to by (TopicIdentity).
Own(p) == {t.id : t \in proc[p].known}

\* apply_topic, revert_topic and merge, on the policy read.
NewPolicy(p, policy) ==
    CASE Kind(p) = "apply" -> [policy EXCEPT !.topics = (@ \ Own(p)) \cup {proc[p].id}]
      [] Kind(p) = "revert" -> [policy EXCEPT !.topics = @ \ Own(p)]
      [] Kind(p) = "profilesUpdate" -> [policy EXCEPT !.rest = proc[p].cmd.rest]

\* read_profile and lookup.  apply writes nothing when the profile has the
\* topic already; revert refuses one that has not.
FindProfile(p) ==
    /\ proc[p].pc = "findProfile"
    /\ \/ p \notin signal /\ NamedProfiles(p) # {}
          /\ \E r \in NamedProfiles(p) :
               Move(p, CASE Kind(p) = "profilesDelete" ->
                              [At(p, IF proc[p].cmd.force THEN "write" ELSE "ask")
                                 EXCEPT !.read = {r}]
                         [] Kind(p) = "apply" /\ NewPolicy(p, r.policy) = r.policy ->
                              Exit(p, Ok(NothingChanged))
                         [] Kind(p) = "revert" /\ r.policy.topics \cap Own(p) = {} -> Stop(p)
                         [] OTHER -> [At(p, "write") EXCEPT !.read = {r}])
       \/ p \notin signal /\ NamedProfiles(p) = {} /\ Move(p, Stop(p))
       \/ ReadFails(p)

\* The command's write.
EditEffect(p) ==
    CASE Kind(p) = "topicsCreate" ->
            IF proc[p].known = {} THEN <<"makeTopic", proc[p].cmd.t>>
            ELSE <<"putTopic", proc[p].id>>
      [] Kind(p) = "topicsUpdate" -> <<"putTopic", proc[p].cmd.id>>
      [] Kind(p) = "topicsDelete" -> <<"dropTopic", proc[p].cmd.id>>
      [] Kind(p) = "profilesCreate" -> <<"makeProfile", proc[p].cmd.n>>
      [] Kind(p) = "profilesDelete" -> <<"dropProfile", ReadProfile(p).id>>
      [] OTHER -> <<"putProfile", proc[p].cmd.n>>

Edit(p) ==
    LET e == EditEffect(p)
    IN  CASE Kind(p) \in {"topicsCreate", "topicsUpdate"} ->
                [by |-> p, effect |-> e, def |-> proc[p].cmd.def]
          [] Kind(p) = "topicsDelete" -> [by |-> p, effect |-> e, force |-> proc[p].cmd.force]
          [] Kind(p) = "profilesCreate" ->
                [by |-> p, effect |-> e, policy |-> [topics |-> {}, rest |-> proc[p].cmd.rest]]
          [] Kind(p) = "profilesDelete" -> [by |-> p, effect |-> e]
          [] OTHER ->
                [by |-> p, effect |-> e, id |-> ReadProfile(p).id,
                 policy |-> NewPolicy(p, ReadProfile(p).policy)]

\* One attempt; revert goes on with the deletion.
WriteEdit(p) ==
    /\ proc[p].pc = "write"
    /\ Send(p, Edit(p), "write",
            [a \in Answers |->
              IF a # "ok" THEN Exit(p, Failed(a, Told(a, {}, EditEffect(p))))
              ELSE IF Kind(p) = "revert"
              THEN [At(p, "drop") EXCEPT !.context = Claim({EditEffect(p)}, {})]
              ELSE Done(p, Claim({EditEffect(p)}, {}))])

\* revert deletes the topic, never by force; a 409 (still referenced) is a
\* success that keeps it.  To every other failure but an interruption it adds
\* "Profile ... was updated; the topic was not deleted", whatever the answer.
DropTopic(p) ==
    /\ proc[p].pc = "drop"
    /\ LET put == EditEffect(p)
           drop == <<"dropTopic", proc[p].id>>
       IN  Send(p, [by |-> p, effect |-> drop, force |-> FALSE], "drop",
                [a \in Answers |->
                  IF a = "ok" THEN Done(p, Claim({put, drop}, {}))
                  ELSE IF a = "rejected" /\ Referenced(svc, proc[p].id) THEN Done(p, Claim({put}, {}))
                  ELSE IF a \in Interrupted THEN Exit(p, Failed(a, Told(a, {put}, drop)))
                  ELSE Exit(p, Failed(a, Claim({put}, {})))])

=============================================================================
