--------------------------- MODULE MCStudentRecord ---------------------------
(* A catalogue of five courses, three curricula of the published shapes, and the *)
(* reading of prerequisite texts compared with what they mean.                    *)
EXTENDS StudentRecord
LOCAL INSTANCE SequencesExt
Texts == INSTANCE Prerequisites WITH Codes <- {"algo", "nets"}

Row(aus, text, exclusions) ==
  [aus |-> aus, text |-> text, exclusions |-> exclusions, covered |-> TRUE]

MCCatalogue ==
  [algo |-> Row(3, <<>>, {}),
   nets |-> Row(3, <<"algo", "OR", "year4">>, {}),
   art |-> Row(2, <<"(", "law", "OR", "by", "audition", ")", "&", "year2">>, {"law"}),
   law |-> [Row(2, <<>>, {}) EXCEPT !.covered = FALSE],
   gym |-> Row(0, <<>>, {})]

Meeting(at, weeks) == [at |-> at, weeks |-> weeks]
Class(course, meetings) == [course |-> course, meetings |-> meetings]

MCClasses ==
  [algo1 |-> Class("algo", {Meeting(1, {})}), algo2 |-> Class("algo", {Meeting(2, {1})}),
   nets1 |-> Class("nets", {Meeting(1, {1})}), nets2 |-> Class("nets", {Meeting(3, {})}),
   art1 |-> Class("art", {Meeting(2, {2}), Meeting(4, {2})}), art2 |-> Class("art", {Meeting(0, {})}),
   law1 |-> Class("law", {Meeting(1, {2})}), law2 |-> Class("law", {Meeting(3, {1})}),
   gym1 |-> Class("gym", {Meeting(5, {})})]

Planned(course, requirement, label) ==
  [course |-> course, requirement |-> requirement, label |-> label]

NoPaths == [p \in {} |-> 0]
Pools == [core |-> {"algo", "nets"}, elective |-> {"art"}]

\* One total; a choice of paths that set the electives, with the kind of attachment
\* in their names; one total with a choice of attachments in the plan.
MCCurricula ==
  {[total |-> 10, paths |-> NoPaths, minimum |-> [core |-> 6, elective |-> 4], year |-> 4,
    pool |-> Pools,
    plan |-> <<Planned("algo", "core", "none"), Planned("nets", "core", "none"),
               Planned("law", "elective", "none"), Planned("gym", "none", "none")>>],
   [total |-> 0, minimum |-> [core |-> 6, elective |-> 0], year |-> 3, pool |-> Pools,
    paths |-> [short |-> [aus |-> 8, category |-> [elective |-> 2], attachment |-> "pa"],
               long |-> [aus |-> 10, category |-> [elective |-> 4], attachment |-> "pi"]],
    plan |-> <<Planned("nets", "core", "none"), Planned("algo", "core", "pa"),
               Planned("algo", "core", "pi"), Planned("law", "elective", "pi")>>],
   [total |-> 11, paths |-> NoPaths, minimum |-> [core |-> 7, elective |-> 4], year |-> 4,
    pool |-> Pools,
    plan |-> <<Planned("algo", "core", "none"), Planned("nets", "core", "pi"),
               Planned("art", "elective", "none"), Planned("law", "elective", "pa")>>]}

-----------------------------------------------------------------------------
(* A course exempted twice *)

\* The condition of ReadyIsEarned is needed.  An S1 student has completed algo and lacks
\* law, 2 AUs.  Somebody enters an exemption of law, and has the one within its category
\* name law as well.  No check compares the courses of two exemptions: the record is
\* accepted, and READY with 10 of 10 AUs, of which law counts 4.
ASSUME ExemptedTwiceCanBeReady ==
  \E cur \in {c \in MCCurricula : c.total = 10} :
    LET completed == cur.plan[1]
        target == cur.plan[3]
        entered == Entry("exempt", 2, "law", "none", 2)
        ledger == {Taken("algo"), Entry("exempt", 1, "none", "core", 3),
                   Entry("exempt", 1, "law", "elective", 2), entered}
    IN
    \E tuple \in Tuples(cur, "S1", target, completed) :
      LET built == Build(cur, "S1", FALSE, "none", "none", target, completed, tuple, {})
          r == [Credited(cur, built, entered) EXCEPT !.student.ledger = ledger]
      IN
      /\ Constructible(r) /\ Accepted(cur, r)
      /\ r.audit.outcome = "READY" /\ r.student.earned = 10
      /\ ExemptedTwice(r.student) = {"law"} /\ UniqueCredit(r.student) = 8

-----------------------------------------------------------------------------
(* Prerequisite texts *)

Reading == INSTANCE Prerequisites WITH Codes <- DOMAIN MCCatalogue
MCJudgement(text, completed, year) == Reading!EvaluatePrerequisite(text, completed, year)

Atoms == {Texts!Course("algo"), Texts!Course("nets"), Texts!Standing(3),
          Texts!Unsupported(<<"by", "audition">>)}
Pairs(parts) == {Texts!Joined(type, <<e, f>>) : type \in {"AND", "OR"}, e, f \in parts}

ASSUME TextsAreReadAsMeant ==
  \A e \in Pairs(Atoms \cup Pairs(Atoms)), completed \in SUBSET {"algo", "nets"}, year \in 2..3 :
    Texts!ReadAsMeant(e, completed, year)

ASSUME MoreIsNeverWorse ==
  \A text \in BoundedSeq({"algo", "by", "AND", "OR", "(", ")"}, 4) \ {<<>>},
     more \in SUBSET {"algo", "nets"} : \A fewer \in SUBSET more :
    Texts!Monotone(text, fewer, more, 3)

=============================================================================
