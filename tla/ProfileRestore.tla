--------------------------- MODULE ProfileRestore ---------------------------
(***************************************************************************)
(* `runtime profiles restore` (commands/profile_restore.rs, and the plan,  *)
(* runtime/transfer/plan.rs): plan every profile and topic of the backup,  *)
(* ask, check the destination again, then write the topics and the         *)
(* profiles in order, each once, and stop at the first failure.            *)
(*                                                                         *)
(* `read` holds the profiles found when planning, `known` the topics found *)
(* and made, `i` the item at hand.  Left out: a dry run (a declined one),  *)
(* DLP bindings, fields the service adds, the revision of a topic, and     *)
(* answers that contradict the request.                                    *)
(***************************************************************************)
EXTENDS RuntimeService

\* The listing a restore reads; a name with two ids in it ends the restore.
Ambiguous == \E r, q \in Latest(svc.profiles) : r.name = q.name /\ r.id # q.id

\* Variant of Action: a verification creates nothing.
ActionVerifyOnly(c, n) ==
    IF c.cmd.conflict = "verify" THEN "verify"
    ELSE IF Named(c.read, n) = {} THEN "create"
    ELSE IF c.cmd.conflict = "skip" THEN "skip" ELSE "update"

\* plan_profiles: what the restore c does with a profile.
Action(c, n) ==
    IF Named(c.read, n) = {} THEN "create"
    ELSE IF c.cmd.conflict \in {"skip", "verify"} THEN c.cmd.conflict
    ELSE "update"

Acted(c) == {n \in Elements(c.cmd.profiles) : Action(c, n) # "skip"}
Changing(c) == {n \in Elements(c.cmd.profiles) : Action(c, n) \in {"create", "update"}}

\* changing_refs: the topics of the profiles that are not skipped.
Topics(c) ==
    {t \in Elements(c.cmd.topics) : \E n \in Acted(c) : t \in SourcePolicy[n].topics}

\* mapped_policy.
Mapped(c, n) ==
    [topics |-> {t.id : t \in {k \in c.known : k.name \in SourcePolicy[n].topics}},
     rest |-> SourcePolicy[n].rest]

\* finish: a profile to verify that is not as it would be restored, or a
\* topic of it that is missing.
Mismatch(c) ==
    \E n \in Acted(c) :
        /\ Action(c, n) = "verify"
        /\ \/ ~\E r \in Named(c.read, n) : r.policy = Mapped(c, n)
           \/ \E t \in SourcePolicy[n].topics : Named(c.known, t) = {}

\* The complete plan, and the question; a plan that writes no profile asks
\* nothing.
Planned(p, c) ==
    IF Mismatch(c) THEN Refuse(p)
    ELSE [c EXCEPT !.pc = IF Changing(c) # {} /\ ~c.cmd.force THEN "ask" ELSE "recheck"]

PlanProfiles(p) ==
    /\ proc[p].pc = "planProfiles"
    /\ \/ LET c == [proc[p] EXCEPT !.read = {r \in Latest(svc.profiles) :
                                               r.name \in Elements(proc[p].cmd.profiles)}]
          IN  /\ p \notin signal
              /\ Move(p, IF Ambiguous \/ (c.cmd.conflict = "error" /\ c.read # {})
                         THEN Refuse(p)
                         ELSE IF Topics(c) = {} THEN Planned(p, c)
                         ELSE [c EXCEPT !.pc = "planTopics"])
       \/ ReadFails(p)

\* plan_topics: a topic that exists is reused, if it is the only one of its
\* name and the same.
PlanTopics(p) ==
    /\ proc[p].pc = "planTopics"
    /\ \/ LET names == Topics(proc[p])
              c == [proc[p] EXCEPT !.known = {t \in svc.topics : t.name \in names}]
          IN  /\ p \notin signal
              /\ Move(p, IF \E t \in names : \/ Cardinality(Named(c.known, t)) > 1
                                             \/ \E k \in Named(c.known, t) : k.def # SourceTopic[t]
                         THEN Refuse(p)
                         ELSE Planned(p, c))
       \/ ReadFails(p)

-----------------------------------------------------------------------------
(* Execution *)

\* Variant of Changed: the second look compares nothing.
ChangedNever(c, n) == FALSE

\* changed, in any of the listings after the plan.
Changed(c, n) == Named(Latest(svc.profiles), n) # Named(c.read, n)

TopicItems(c) == {i \in DOMAIN c.cmd.topics : c.cmd.topics[i] \in Topics(c)}
ProfileItems(c) ==
    {i + Len(c.cmd.topics) : i \in {k \in DOMAIN c.cmd.profiles : c.cmd.profiles[k] \in Acted(c)}}

\* The planned items, by their places in the backup: the topics, then the
\* profiles.
Items(c) == TopicItems(c) \cup ProfileItems(c)

\* On to the first item after place i, or to the end.
Item(c, i) ==
    LET later == {j \in Items(c) : j > i}
    IN  IF later = {}
        THEN [c EXCEPT !.replayed = FALSE, !.pc = "exit", !.result = Ok(c.context)]
        ELSE [c EXCEPT !.i = First(later), !.replayed = FALSE,
                       !.pc = IF First(later) <= Len(c.cmd.topics) THEN "topic" ELSE "profile"]

TopicName(c) == c.cmd.topics[c.i]
ProfileName(c) == c.cmd.profiles[c.i - Len(c.cmd.topics)]

Recheck(p) ==
    /\ proc[p].pc = "recheck"
    /\ \/ /\ p \notin signal
          /\ Move(p, IF Ambiguous \/ \E n \in Acted(proc[p]) : Changed(proc[p], n)
                     THEN Stop(p)
                     ELSE Item(proc[p], 0))
       \/ ReadFails(p)

\* A topic: still there, or still to be made.
Topic(p) ==
    /\ proc[p].pc = "topic"
    /\ LET c == proc[p]
           planned == Named(c.known, TopicName(c))
           same == IF planned = {} THEN Named(svc.topics, TopicName(c)) = {}
                                   ELSE planned \subseteq svc.topics
       IN  \/ /\ p \notin signal
              /\ Move(p, IF ~same THEN Stop(p)
                         ELSE IF planned # {} THEN Item(c, c.i)
                         ELSE At(p, "postTopic"))
           \/ ReadFails(p)

PostTopic(p) ==
    /\ proc[p].pc = "postTopic"
    /\ LET c == proc[p]
           t == TopicName(c)
           effect == <<"makeTopic", t>>
           made == [id |-> svc.next, name |-> t, def |-> SourceTopic[t]]
       IN  \/ p \in signal /\ Move(p, Interrupt(p))
           \/ Send(p, [by |-> p, effect |-> effect, def |-> SourceTopic[t]], "postTopic",
                   [a \in Answers |-> IF a = "ok"
                              THEN Item(Written([c EXCEPT !.known = @ \cup {made}], effect), c.i)
                              ELSE WriteFailed(p, a, effect)])

\* A profile, looked at once more: verified at once, or to be written.
Profile(p) ==
    /\ proc[p].pc = "profile"
    /\ LET c == proc[p]
           n == ProfileName(c)
       IN  \/ /\ p \notin signal
              /\ Move(p, IF Ambiguous \/ Changed(c, n) THEN Stop(p)
                         ELSE IF Action(c, n) # "verify" THEN At(p, "writeProfile")
                         ELSE IF \E r \in Named(Latest(svc.profiles), n) : r.policy = Mapped(c, n)
                         THEN Item(c, c.i)
                         ELSE Stop(p))
           \/ ReadFails(p)

ProfileWrite(p) ==
    LET c == proc[p]
        n == ProfileName(c)
    IN  IF Action(c, n) = "create"
        THEN [by |-> p, effect |-> <<"makeProfile", n>>, policy |-> Mapped(c, n)]
        ELSE [by |-> p, effect |-> <<"putProfile", n>>, policy |-> Mapped(c, n),
              id |-> (CHOOSE r \in Named(c.read, n) : TRUE).id]

WriteProfile(p) ==
    /\ proc[p].pc = "writeProfile"
    /\ LET m == ProfileWrite(p)
           id == IF Op(m) = "putProfile" /\ svc.keepsId THEN m.id ELSE svc.next
       IN  \/ p \in signal /\ Move(p, Interrupt(p))
           \/ Send(p, m, "writeProfile",
                   [a \in Answers |-> IF a = "ok"
                              THEN Written([At(p, "verifyProfile") EXCEPT !.id = id], m.effect)
                              ELSE WriteFailed(p, a, m.effect)])

\* The profile read back: the restored policy, under the answered id.
VerifyProfile(p) ==
    /\ proc[p].pc = "verifyProfile"
    /\ LET c == proc[p]
           n == ProfileName(c)
       IN  \/ /\ p \notin signal
              /\ Move(p, IF ~Ambiguous
                            /\ \E r \in Named(Latest(svc.profiles), n) :
                                 r.policy = Mapped(c, n) /\ r.id = c.id
                         THEN Item([c EXCEPT !.id = 0], c.i)
                         ELSE Stop(p))
           \/ ReadFails(p)

=============================================================================
