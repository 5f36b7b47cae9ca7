---------------------------- MODULE StudentRecord ----------------------------
(***************************************************************************)
(* One student of the simulated data: the credit ledger, the degree audit   *)
(* and the registration, with the classes they name and the course the      *)
(* student still wants.  The generator (scripts/build_simulated_data.py)    *)
(* writes the record from the published curriculum, somebody may edit it,   *)
(* construction (models/academic.py) and the cross-file validator           *)
(* (data/simulated/validator.py) accept or refuse it, and the agent later    *)
(* asks the course tools (tools/course.py) about it.                        *)
(*                                                                         *)
(* Credit is counted four times over: entry by entry in the ledger, per     *)
(* requirement in the audit, as the total of each, and against the total    *)
(* of the curriculum or of the path chosen in it.  Whether the student may  *)
(* take the course is judged three times: by the generator on what it has   *)
(* so far, by the validator on the record, and by the tools.                *)
(***************************************************************************)
EXTENDS Integers, Sequences, FiniteSets, FiniteSetsExt

CONSTANTS
  Catalogue,      \* course -> its AUs, prerequisite text, exclusions, coverage
  Classes,        \* class -> the course it teaches and its meetings
  Curricula,      \* the detailed curricula
  WorkloadLimit,  \* AUs a semester may have
  Judgement(_, _, _),  \* what a prerequisite text says of the courses completed and a year
  MaxCredits,     \* bound: credits entered into a built record
  MaxEdits        \* bound: other edits made to it

INSTANCE RecordLinks WITH Owners <- {"mine", "theirs"}

VARIABLES
  curriculum,  \* the student's curriculum
  rec,         \* the record: scope, ledger, audit, registration, class states, offer, files
  credits,     \* credits entered so far
  edits,       \* other edits made so far
  phase        \* draft, accepted or refused

vars == <<curriculum, rec, credits, edits, phase>>

-----------------------------------------------------------------------------
(* The published data *)

Courses == DOMAIN Catalogue

\* evaluate_prerequisite: without a text nothing is demanded.  How one is read and
\* judged is the matter of Prerequisites, which the instances give as Judgement.
EvaluatePrerequisite(text, completed, year) ==
  IF text = <<>> THEN "PASS" ELSE Judgement(text, completed, year)

Requirements(cur) == DOMAIN cur.minimum
Paths(cur) == DOMAIN cur.paths
Labels(cur) == {cur.plan[i].label : i \in DOMAIN cur.plan} \ {"none"}
ClassesOf(course) == {k \in DOMAIN Classes : Classes[k].course = course}

\* The requirements a course may count for.
RequirementsOf(cur, course) ==
  ({cur.plan[i].requirement : i \in {j \in DOMAIN cur.plan : cur.plan[j].course = course}} \ {"none"})
    \cup {r \in Requirements(cur) : course \in cur.pool[r]}

\* The total to graduate with; 0 where none is published.
GraduationTotal(cur, path) == IF path \in Paths(cur) THEN cur.paths[path].aus
                              ELSE IF Paths(cur) = {} THEN cur.total ELSE 0

\* CurriculumRequirement, GraduationPath and Curriculum.unique_requirements: at most one
\* kind of total, and plan items of known requirements.
CurriculumValid(cur) ==
  /\ cur.total \in Nat /\ cur.minimum \in [Requirements(cur) -> Nat]
  /\ \A p \in Paths(cur) :
       /\ cur.paths[p].aus \in Nat \ {0}
       /\ \A r \in DOMAIN cur.paths[p].category : cur.paths[p].category[r] \in Nat
  /\ cur.total = 0 \/ Paths(cur) = {}
  /\ cur.plan \in Seq(Range(cur.plan))
  /\ \A i \in DOMAIN cur.plan : cur.plan[i].requirement \in Requirements(cur) \cup {"none"}

\* No course has more AUs than a semester may have (20 at most, of 21).  Every
\* published curriculum has besides: each course counts for one requirement, and there
\* is a label for each kind of attachment.
ASSUME StudentRecordAssumption ==
  /\ MaxCredits \in Nat /\ MaxEdits \in Nat /\ WorkloadLimit \in Nat
  /\ "none" \notin Courses
  /\ \A c \in Courses : Catalogue[c].aus \in 0..WorkloadLimit /\ c \notin Catalogue[c].exclusions
  /\ \A cur \in Curricula :
       /\ CurriculumValid(cur)
       /\ IsFiniteSet(Requirements(cur)) /\ "none" \notin Requirements(cur)
       /\ \A c \in Courses : Cardinality(RequirementsOf(cur, c)) <= 1
       /\ \A p \in Paths(cur) :
            Labels(cur) # {} /\ cur.paths[p].attachment # "none" =>
              cur.paths[p].attachment \in Labels(cur)

\* Who passes a text passes it with more courses too.
ASSUME JudgementAssumption ==
  \A c \in Courses, cur \in Curricula, more \in SUBSET Courses : \A fewer \in SUBSET more :
    EvaluatePrerequisite(Catalogue[c].text, fewer, cur.year) = "PASS" =>
      EvaluatePrerequisite(Catalogue[c].text, more, cur.year) = "PASS"

SumOf(entries) == SumFunction([e \in entries |-> e.aus])

\* A meeting is at a time of the week (0 where the source does not say) in some
\* weeks (none where the source does not say).
\* The generator's and the validator's _meeting_conflicts
MeetingConflicts(left, right) ==
  \/ left.at = 0 \/ right.at = 0
  \/ /\ left.at = right.at
     /\ left.weeks # {} /\ right.weeks # {} => left.weeks \cap right.weeks # {}

MeetingsConflict(some, others) == \E m \in some, n \in others : MeetingConflicts(m, n)

-----------------------------------------------------------------------------
(* The generator *)

\* One entry of the ledger: a course taken, or an exemption from one or within a
\* category.
Entry(kind, id, course, category, aus) ==
  [kind |-> kind, id |-> id, course |-> course, category |-> category, aus |-> aus]

NeedsFeasible == {"S1", "S4", "S7"}

\* The pairs of path and label a student may be given.
Routes(cur) ==
  {route \in (Paths(cur) \cup {"none"}) \X (Labels(cur) \cup {"none"}) :
     LET path == route[1]
         label == route[2]
     IN
     /\ path = "none" <=> Paths(cur) = {}
     /\ label = "none" <=> Labels(cur) = {}
     /\ path # "none" /\ label # "none" /\ cur.paths[path].attachment # "none" =>
          label = cur.paths[path].attachment}

\* Plan items somebody can register for, those with two classes first.
PlanCandidates(cur) ==
  {i \in DOMAIN cur.plan :
     LET item == cur.plan[i] IN
     /\ item.course \in Courses /\ item.requirement # "none"
     /\ Catalogue[item.course].aus > 0 /\ ClassesOf(item.course) # {}}

Candidates(cur) ==
  LET several == {i \in PlanCandidates(cur) : Cardinality(ClassesOf(cur.plan[i].course)) >= 2}
  IN IF several # {} THEN several ELSE PlanCandidates(cur)

OnLabel(item, label) == item.label \in {"none", label}

TargetCandidates(cur, family, label) ==
  {i \in Candidates(cur) :
     LET text == Catalogue[cur.plan[i].course].text IN
     /\ OnLabel(cur.plan[i], label)
     /\ family \in NeedsFeasible => EvaluatePrerequisite(text, {}, cur.year) = "PASS"
     /\ family = "S2" => \E w \in DOMAIN text : text[w] \in Courses}

\* What a requirement asks for: its own minimum or the path's.
Minimum(cur, path, r) ==
  IF cur.minimum[r] # 0 THEN cur.minimum[r]
  ELSE IF path \in Paths(cur) /\ r \in DOMAIN cur.paths[path].category THEN cur.paths[path].category[r]
  ELSE 0

\* available_requirement_aus: what is left of it beside the missing course.
Left(cur, path, target, r) ==
  Minimum(cur, path, r) - (IF r = target.requirement THEN Catalogue[target.course].aus ELSE 0)

\* The course the student has completed: the first of the plan that fits.
CompletedCandidates(cur, family, path, label, target) ==
  {i \in PlanCandidates(cur) :
     LET item == cur.plan[i] IN
     /\ item.course # target.course /\ OnLabel(item, label)
     /\ Left(cur, path, target, item.requirement) >= Catalogue[item.course].aus
     /\ family = "S2" =>
          EvaluatePrerequisite(Catalogue[target.course].text, {item.course}, cur.year) # "PASS"
     /\ family \in NeedsFeasible =>
          /\ item.course \notin Catalogue[target.course].exclusions
          /\ target.course \notin Catalogue[item.course].exclusions}

TotalRequired(cur, path) ==
  IF path # "none" THEN cur.paths[path].aus ELSE IF cur.total # 0 THEN cur.total ELSE 120

\* The generator goes on only if the parts add up to the whole.
Reconciles(cur, path, target) ==
  /\ Left(cur, path, target, target.requirement) >= 0
  /\ SumFunction([r \in Requirements(cur) |-> Left(cur, path, target, r)])
       = TotalRequired(cur, path) - Catalogue[target.course].aus

\* What of a requirement the completed course leaves to an exemption.
Exempted(cur, path, target, completed, r) ==
  Left(cur, path, target, r)
    - (IF r = completed.requirement THEN Catalogue[completed.course].aus ELSE 0)

\* _build, the scope of a curriculum's students.
BuiltScope(cur) == [year |-> cur.year, paths |-> Paths(cur), labels |-> Labels(cur)]

Taken(course) == Entry("earned", 1, course, "none", Catalogue[course].aus)

\* Deviation of BuiltLedger: the prior credit of the whole degree in one category.
BuiltLedgerInOneCategory(cur, path, target, completed) ==
  {Taken(completed.course),
   Entry("exempt", 1, "none", completed.requirement,
         SumFunction([r \in Requirements(cur) |-> Exempted(cur, path, target, completed, r)]))}

BuiltLedger(cur, path, target, completed) ==
  {Taken(completed.course)}
    \cup {Entry("exempt", 1, "none", r, Exempted(cur, path, target, completed, r)) :
            r \in {q \in Requirements(cur) : Exempted(cur, path, target, completed, q) > 0}}

BuiltStudent(cur, path, label, target, completed) ==
  [path |-> path, label |-> label, year |-> cur.year,
   ledger |-> BuiltLedger(cur, path, target, completed),
   earned |-> TotalRequired(cur, path) - Catalogue[target.course].aus]

BuiltAudit(cur, path, label, target, completed, indeterminate) ==
  [path |-> path, label |-> label,
   results |-> [r \in Requirements(cur) |->
     LET unclear == indeterminate /\ r = target.requirement IN
     [status |-> IF unclear THEN "INDETERMINATE"
                 ELSE IF r = target.requirement THEN "OUTSTANDING" ELSE "SATISFIED",
      required |-> IF unclear THEN -1 ELSE Minimum(cur, path, r),
      earned |-> Left(cur, path, target, r),
      done |-> IF r = completed.requirement THEN {completed.course} ELSE {},
      open |-> IF r = target.requirement THEN {target.course} ELSE {},
      limited |-> unclear]],
   earned |-> TotalRequired(cur, path) - Catalogue[target.course].aus,
   required |-> IF indeterminate THEN -1 ELSE TotalRequired(cur, path),
   outcome |-> IF indeterminate THEN "INDETERMINATE" ELSE "NOT_READY", limited |-> indeterminate]

Concrete(class) == Classes[class].meetings # {} /\ \A m \in Classes[class].meetings : m.at # 0

\* Preferred class, alternative and class already registered.  A family that must
\* be feasible searches for them; the others take the first course by code, in an
\* order that is arbitrary here.
Tuples(cur, family, target, completed) ==
  LET bases == {cur.plan[i].course : i \in PlanCandidates(cur)} \ {target.course, completed.course}
  IN
  {t \in [preferred : ClassesOf(target.course), alternative : ClassesOf(target.course),
          base : UNION {ClassesOf(c) : c \in bases}] :
     LET base == Classes[t.base].course
         Clash(class) == MeetingsConflict(Classes[class].meetings, Classes[t.base].meetings)
     IN
     /\ t.preferred # t.alternative
     /\ family \notin NeedsFeasible => base = CHOOSE c \in bases : TRUE
     /\ family \in NeedsFeasible =>
          /\ Concrete(t.preferred) /\ Concrete(t.alternative) /\ Concrete(t.base)
          /\ Catalogue[target.course].aus + Catalogue[base].aus <= WorkloadLimit
          /\ base \notin Catalogue[target.course].exclusions
          /\ target.course \notin Catalogue[base].exclusions
          /\ EvaluatePrerequisite(Catalogue[base].text, {completed.course}, cur.year) = "PASS"
          /\ Clash(t.preferred) <=> family \in {"S1", "S4"}
          /\ ~Clash(t.alternative)}

Item(id, class) ==
  [id |-> id, course |-> Classes[class].course, class |-> class, state |-> class, version |-> 1,
   aus |-> Catalogue[Classes[class].course].aus, eligible |-> TRUE]

MeetingsOf(items) ==
  UNION {{[item |-> i.id, course |-> i.course, class |-> i.class, meeting |-> m] :
            m \in Classes[i.class].meetings} : i \in items}

\* The first student, an S1 case, keeps a support course without AUs besides.
BuiltRegistration(target, base, support) ==
  LET items == {Item(1, base)} \cup {Item(2, k) : k \in support} IN
  [items |-> items, timetable |-> MeetingsOf(items), workload |-> SumOf(items),
   limit |-> WorkloadLimit, missing |-> {target.course}]

BuiltStates ==
  [k \in DOMAIN Classes |->
     [class |-> k, version |-> 1, capacity |-> 2, seats |-> 1, status |-> "OPEN",
      available |-> TRUE, explained |-> FALSE]]

SupportChoices == {{}} \cup {{k} : k \in {j \in DOMAIN Classes : Catalogue[Classes[j].course].aus = 0}}

\* _build, for one student
Build(cur, family, unclear, path, label, target, completed, tuple, support) ==
  [scope |-> BuiltScope(cur),
   student |-> BuiltStudent(cur, path, label, target, completed),
   audit |-> BuiltAudit(cur, path, label, target, completed, unclear),
   registration |-> BuiltRegistration(target, tuple.base, support),
   states |-> BuiltStates,
   offer |-> [family |-> family, target |-> target.course,
              preferred |-> tuple.preferred, alternative |-> tuple.alternative],
   files |-> BuiltFiles(IF family \in {"S2", "S4"} THEN {"mine", "theirs"} ELSE {})]

-----------------------------------------------------------------------------
(* What can be constructed: the model validators *)

\* OfferingState.validate_runtime_capacity
StateValid(state) ==
  /\ state.seats <= state.capacity
  /\ state.explained <=> state.status # "OPEN"
  /\ state.available <=> state.status = "OPEN" /\ state.seats > 0

EarnedEntries(student) == {e \in student.ledger : e.kind = "earned"}
Exemptions(student) == {e \in student.ledger : e.kind = "exempt"}
CoursesIn(entries) == {e.course : e \in entries} \ {"none"}
CreditedCourses(student) == CoursesIn(EarnedEntries(student) \cup Exemptions(student))

\* CompletedCourse.validate_credit and Exemption.identify_exemption_target.
EntryValid(e) ==
  /\ e.aus \in Nat
  /\ e.kind = "failed" => e.aus = 0
  /\ e.course # "none" \/ (e.kind = "exempt" /\ e.category # "none")

\* Deviation of StudentValid: a course repeated in a later attempt counts again.
StudentValidCountingRepeats(student) ==
  /\ \A e \in student.ledger : EntryValid(e)
  /\ CoursesIn(EarnedEntries(student)) \cap CoursesIn(Exemptions(student)) = {}
  /\ SumOf(EarnedEntries(student) \cup Exemptions(student)) = student.earned

\* Student.validate_student_history.  An entry's id tells attempts and exemptions
\* apart; nothing compares the courses of two exemptions.
StudentValid(student) ==
  /\ \A e \in student.ledger : EntryValid(e)
  /\ \A d, e \in EarnedEntries(student) : d # e => d.course # e.course
  /\ CoursesIn(EarnedEntries(student)) \cap CoursesIn(Exemptions(student)) = {}
  /\ SumOf(EarnedEntries(student) \cup Exemptions(student)) = student.earned

\* RequirementProgress.validate_progress
ProgressValid(result) ==
  /\ result.required \in Nat \cup {-1} /\ result.earned \in Nat
  /\ result.done \cap result.open = {}
  /\ result.required = -1 => result.status = "INDETERMINATE"
  /\ result.status = "SATISFIED" /\ result.required > 0 => result.earned >= result.required
  /\ result.status = "INDETERMINATE" => result.limited

\* DegreeAudit.validate_audit_result: the outcome follows from the results.
AuditValid(audit) ==
  LET Some(status) == \E r \in DOMAIN audit.results : audit.results[r].status = status
      ready == /\ audit.earned >= audit.required
               /\ \A r \in DOMAIN audit.results : audit.results[r].status = "SATISFIED"
  IN
  /\ audit.required \in (Nat \ {0}) \cup {-1} /\ audit.earned \in Nat
  /\ audit.outcome = IF audit.required = -1 \/ Some("INDETERMINATE") THEN "INDETERMINATE"
                     ELSE IF ready THEN "READY" ELSE "NOT_READY"
  /\ audit.outcome = "INDETERMINATE" => audit.limited

\* Registration.validate_registration
RegistrationValid(registration) ==
  /\ \A i, j \in registration.items :
       i # j => i.id # j.id /\ <<i.course, i.class>> # <<j.course, j.class>>
  /\ SumOf(registration.items) = registration.workload
  /\ registration.workload <= registration.limit
  /\ \A m \in registration.timetable :
       \E i \in registration.items : i.id = m.item /\ i.course = m.course /\ i.class = m.class

Constructible(r) ==
  /\ \A s \in DOMAIN r.states : StateValid(r.states[s])
  /\ StudentValid(r.student)
  /\ \A q \in DOMAIN r.audit.results : ProgressValid(r.audit.results[q])
  /\ AuditValid(r.audit) /\ RegistrationValid(r.registration)

-----------------------------------------------------------------------------
(* The cross-file validator *)

\* _check_offering_states: exactly one state for every class, and none else.
CheckOfferingStates(r) ==
  /\ \A s \in DOMAIN r.states : r.states[s].class \in DOMAIN Classes
  /\ \A k \in DOMAIN Classes : Cardinality({s \in DOMAIN r.states : r.states[s].class = k}) = 1

\* _check_scopes
CheckScope(cur, scope) ==
  scope.year = cur.year /\ scope.paths \subseteq Paths(cur) /\ scope.labels \subseteq Labels(cur)

\* _check_selected_paths: a scope that permits no path permits all, and what labels it
\* permits is not asked.
CheckSelectedPaths(cur, scope, path, label) ==
  /\ IF Paths(cur) = {} THEN path = "none" ELSE path \in Paths(cur)
  /\ path # "none" /\ scope.paths # {} => path \in scope.paths
  /\ IF Labels(cur) = {} THEN label = "none" ELSE label \in Labels(cur)
  /\ path # "none" /\ label # "none" /\ cur.paths[path].attachment # "none" =>
       label = cur.paths[path].attachment

\* _check_students
CheckStudent(cur, scope, student) ==
  /\ student.year = scope.year
  /\ CheckSelectedPaths(cur, scope, student.path, student.label)
  /\ \A e \in student.ledger :
       /\ e.course \in Courses \cup {"none"} /\ e.category \in Requirements(cur) \cup {"none"}
       /\ e.kind = "earned" => e.aus = Catalogue[e.course].aus

Credits(student) == EarnedEntries(student) \cup Exemptions(student)

\* The requirements an entry's credit resolves to: its category, with which its
\* course must agree, or else the requirements of its course.
Allocations(cur, e) ==
  IF e.category \in Requirements(cur)
  THEN {r \in {e.category} : e.course = "none" \/ RequirementsOf(cur, e.course) = {r}}
  ELSE RequirementsOf(cur, e.course)

Allocated(cur, student, r) == SumOf({e \in Credits(student) : Allocations(cur, e) = {r}})

\* _check_audit_credit_allocation
CheckAllocation(cur, student, audit) ==
  /\ \A e \in Credits(student) : Cardinality(Allocations(cur, e)) = 1
  /\ \A e \in {d \in Credits(student) : d.course # "none"} :
       {r \in DOMAIN audit.results : e.course \in audit.results[r].done} = Allocations(cur, e)
  /\ \A r \in Requirements(cur) \cap DOMAIN audit.results :
       /\ audit.results[r].earned = Allocated(cur, student, r)
       /\ SumOf({e \in Exemptions(student) : e.category = r}) <= audit.results[r].earned
  /\ SumFunction([r \in Requirements(cur) |-> Allocated(cur, student, r)]) = student.earned

\* _check_audits
CheckAudit(cur, scope, student, audit) ==
  LET expected == GraduationTotal(cur, audit.path) IN
  /\ audit.path = student.path /\ audit.label = student.label
  /\ audit.earned = student.earned
  /\ SumFunction([r \in DOMAIN audit.results |-> audit.results[r].earned]) = audit.earned
  /\ audit.required # -1 /\ (\A r \in DOMAIN audit.results : audit.results[r].required # -1) =>
       SumFunction([r \in DOMAIN audit.results |-> audit.results[r].required]) = audit.required
  /\ CheckSelectedPaths(cur, scope, audit.path, audit.label)
  /\ DOMAIN audit.results = Requirements(cur)
  /\ CheckAllocation(cur, student, audit)
  /\ \A r \in DOMAIN audit.results :
       /\ audit.results[r].done \cup audit.results[r].open \subseteq Courses
       /\ audit.results[r].done \subseteq CreditedCourses(student)
       /\ audit.results[r].open \cap CreditedCourses(student) = {}
  /\ expected # 0 /\ audit.required # -1 => audit.required = expected

\* _check_registrations and _check_registration_meetings.  Every item here is
\* REGISTERED, and of those it asks eligibility.
CheckRegistration(registration, states) ==
  \A i \in registration.items :
    /\ i.state \in DOMAIN states
    /\ states[i.state].class = i.class /\ states[i.state].version = i.version
    /\ i.class \in DOMAIN Classes /\ Classes[i.class].course = i.course
    /\ i.aus = Catalogue[i.course].aus
    /\ i.eligible
    /\ {m.meeting : m \in {n \in registration.timetable : n.item = i.id}} = Classes[i.class].meetings

\* _student_prerequisite_result; without a text nothing is demanded, as no course
\* of the catalogue has demands in another form.
PrerequisiteResult(student, course) ==
  EvaluatePrerequisite(Catalogue[course].text, CreditedCourses(student), student.year)

Timetabled(registration) == {m.meeting : m \in registration.timetable}

\* _state_conflicts_registration, _state_initially_usable
StateConflicts(r, state) ==
  MeetingsConflict(Classes[r.states[state].class].meetings, Timetabled(r.registration))
StateUsable(r, state) ==
  r.states[state].status = "OPEN" /\ r.states[state].available /\ r.states[state].seats > 0

FitsWorkload(r, course) == r.registration.workload + Catalogue[course].aus <= r.registration.limit

\* _check_scenario_target_course: the course is on the student's plan, and the classes
\* of the scenario teach it.
CheckTarget(cur, r) ==
  LET o == r.offer
      linked == {o.preferred} \cup IF o.family \in NeedsFeasible THEN {o.alternative} ELSE {}
  IN
  /\ \E i \in DOMAIN cur.plan : cur.plan[i].course = o.target /\ OnLabel(cur.plan[i], r.student.label)
  /\ \A s \in linked : s \in DOMAIN r.states /\ Classes[r.states[s].class].course = o.target

\* _check_family_semantics, what it asks of the records of S1, S4 and S7.
CheckOffer(r) ==
  LET o == r.offer IN
  o.family \in NeedsFeasible =>
    /\ o.preferred # o.alternative
    /\ \A s \in {o.preferred, o.alternative} : s \in DOMAIN r.states /\ StateUsable(r, s)
    /\ StateConflicts(r, o.preferred) <=> o.family # "S7"
    /\ ~StateConflicts(r, o.alternative)
    /\ PrerequisiteResult(r.student, o.target) = "PASS"
    /\ FitsWorkload(r, o.target)

\* validate_stage3_data, for the files of one student
Accepted(cur, r) ==
  /\ CheckScope(cur, r.scope) /\ CheckOfferingStates(r)
  /\ CheckStudent(cur, r.scope, r.student) /\ CheckAudit(cur, r.scope, r.student, r.audit)
  /\ CheckRegistration(r.registration, r.states)
  /\ CheckTarget(cur, r) /\ CheckOffer(r)
  /\ CheckFiles(r.files)

-----------------------------------------------------------------------------
(* The course tools, asked in a session that holds the record *)

\* Deviation of MeetingsOverlap: a meeting without a time overlaps nothing.
MeetingsOverlapWhenTimed(left, right) ==
  IF left.at # right.at THEN "NO"
  ELSE IF left.weeks = {} \/ right.weeks = {} THEN "UNKNOWN"
  ELSE IF left.weeks \cap right.weeks = {} THEN "NO" ELSE "YES"

\* _meetings_overlap
MeetingsOverlap(left, right) ==
  IF left.at = 0 \/ right.at = 0 THEN "UNKNOWN"
  ELSE IF left.at # right.at THEN "NO"
  ELSE IF left.weeks = {} \/ right.weeks = {} THEN "UNKNOWN"
  ELSE IF left.weeks \cap right.weeks = {} THEN "NO" ELSE "YES"

\* check_timetable
CheckTimetable(r, state) ==
  LET overlaps == {MeetingsOverlap(m, n) : m \in Classes[r.states[state].class].meetings,
                                           n \in Timetabled(r.registration)}
  IN IF "YES" \in overlaps THEN "FAIL" ELSE IF "UNKNOWN" \in overlaps THEN "UNKNOWN" ELSE "PASS"

\* check_prerequisite
CheckPrerequisite(r, course) ==
  IF Catalogue[course].text # <<>> THEN PrerequisiteResult(r.student, course)
  ELSE IF ~Catalogue[course].covered THEN "UNKNOWN" ELSE "PASS"

\* check_workload
CheckWorkload(r, course) ==
  IF r.registration.workload + Catalogue[course].aus <= r.registration.limit THEN "PASS" ELSE "FAIL"

\* check_availability
CheckAvailability(r, state) ==
  LET s == r.states[state] IN s.status = "OPEN" /\ s.available /\ s.seats > 0

-----------------------------------------------------------------------------
(* Edits: what somebody who touches the files may change *)

\* A credit entered the way an author would: in the ledger, in the requirement it
\* counts for, in both totals and in the outcome.
Credited(cur, r, e) ==
  LET q == CHOOSE x \in Allocations(cur, e) : TRUE
      old == r.audit.results[q]
      enough == old.earned + e.aus >= old.required
      new == [old EXCEPT !.earned = @ + e.aus, !.done = @ \cup ({e.course} \ {"none"}),
                         !.open = @ \ {e.course},
                         !.status = IF @ = "INDETERMINATE" THEN @
                                    ELSE IF enough THEN "SATISFIED" ELSE "OUTSTANDING"]
      results == [r.audit.results EXCEPT ![q] = new]
      ready == /\ r.audit.earned + e.aus >= r.audit.required
               /\ \A x \in DOMAIN results : results[x].status = "SATISFIED"
  IN [r EXCEPT !.student.ledger = @ \cup {e}, !.student.earned = @ + e.aus,
               !.audit.results = results, !.audit.earned = @ + e.aus,
               !.audit.outcome = IF @ = "INDETERMINATE" THEN @
                                 ELSE IF ready THEN "READY" ELSE "NOT_READY"]

NewEntries(cur) ==
  {Entry("earned", 2, c, "none", Catalogue[c].aus) : c \in Courses}
    \cup {Entry("exempt", 2, c, "none", Catalogue[c].aus) : c \in Courses}
    \cup {Entry("exempt", id, "none", q, 2) : id \in 2..3, q \in Requirements(cur)}

EditedStudents(cur, s) ==
  {[s EXCEPT !.earned = @ + 1], [s EXCEPT !.year = @ - 1]}
    \cup {[s EXCEPT !.path = p] : p \in Paths(cur) \cup {"none"}}
    \cup {[s EXCEPT !.label = l] : l \in Labels(cur) \cup {"none"}}
    \cup (UNION {{[s EXCEPT !.ledger = (@ \ {e}) \cup {f}] :
               f \in {[e EXCEPT !.aus = @ + 1], [e EXCEPT !.kind = "failed"]}
                       \cup {[e EXCEPT !.course = c] : c \in Courses}
                       \cup {[e EXCEPT !.category = q] :
                               q \in IF e.kind = "exempt" THEN Requirements(cur) ELSE {}}} :
              e \in s.ledger})

EditedAudits(cur, a) ==
  {[a EXCEPT !.earned = @ + 1], [a EXCEPT !.required = -1], [a EXCEPT !.required = @ - 2]}
    \cup {[a EXCEPT !.path = p] : p \in Paths(cur) \cup {"none"}}
    \cup {[a EXCEPT !.outcome = o] : o \in {"READY", "NOT_READY", "INDETERMINATE"}}
    \cup (UNION {{[a EXCEPT !.results[q].earned = @ + 2], [a EXCEPT !.results[q].required = @ - 2],
                 [a EXCEPT !.results[q].required = -1], [a EXCEPT !.results[q].status = "SATISFIED"],
                 [a EXCEPT !.results[q].open = {}], [a EXCEPT !.results[q].done = {}],
                 [a EXCEPT !.results = [x \in DOMAIN @ \ {q} |-> @[x]]]} : q \in DOMAIN a.results})

EditedRegistrations(g) ==
  {[g EXCEPT !.workload = @ + 1], [g EXCEPT !.timetable = {}], [g EXCEPT !.items = {}]}
    \cup {[g EXCEPT !.items = @ \cup {Item(3, k)}, !.timetable = @ \cup MeetingsOf({Item(3, k)}),
                    !.workload = @ + Item(3, k).aus] : k \in DOMAIN Classes}
    \cup {[g EXCEPT !.items = (@ \ {i}) \cup {j}] : i \in g.items,
            j \in UNION {{[i EXCEPT !.version = 2], [i EXCEPT !.eligible = FALSE], [i EXCEPT !.aus = 0]} :
                            i \in g.items}}

EditedStates(states) ==
  UNION {{[states EXCEPT ![s].version = 2], [states EXCEPT ![s].seats = 0],
          [states EXCEPT ![s].seats = 0, ![s].available = FALSE],
          [states EXCEPT ![s].class = CHOOSE k \in DOMAIN Classes : k # s]} : s \in DOMAIN states}

EditedScopes(cur, scope) ==
  {[scope EXCEPT !.year = @ - 1]} \cup {[scope EXCEPT !.paths = paths] : paths \in SUBSET Paths(cur)}
    \cup {[scope EXCEPT !.labels = labels] : labels \in {{}, {"elsewhere"}}}

Edited(cur, r) ==
  {[r EXCEPT !.student = s] : s \in EditedStudents(cur, r.student)}
    \cup {[r EXCEPT !.audit = a] : a \in EditedAudits(cur, r.audit)}
    \cup {[r EXCEPT !.scope = scope] : scope \in EditedScopes(cur, r.scope)}
    \cup {[r EXCEPT !.registration = g] : g \in EditedRegistrations(r.registration)}
    \cup {[r EXCEPT !.states = states] : states \in EditedStates(r.states)}
    \cup {[r EXCEPT !.offer.target = c] : c \in Courses}
    \cup {[r EXCEPT !.offer.alternative = k] : k \in DOMAIN r.states}
    \cup {[r EXCEPT !.offer.preferred = k] : k \in DOMAIN r.states}

-----------------------------------------------------------------------------
(* Specification *)

Init ==
  \E cur \in Curricula, family \in NeedsFeasible \cup {"S2", "OTHER"} :
  \E support \in IF family = "S1" THEN SupportChoices ELSE {{}} :
  \E choice \in Routes(cur), unclear \in IF family = "OTHER" THEN BOOLEAN ELSE {FALSE} :
  \E i \in TargetCandidates(cur, family, choice[2]) :
    LET fitting == CompletedCandidates(cur, family, choice[1], choice[2], cur.plan[i])
        completed == cur.plan[Min(fitting)]
    IN
    /\ Reconciles(cur, choice[1], cur.plan[i]) /\ fitting # {}
    /\ curriculum = cur /\ credits = 0 /\ edits = 0 /\ phase = "draft"
    /\ \E tuple \in Tuples(cur, family, cur.plan[i], completed) :
         rec = Build(cur, family, unclear, choice[1], choice[2], cur.plan[i], completed, tuple, support)

Credit ==
  /\ phase = "draft" /\ edits = 0 /\ credits < MaxCredits
  /\ \E e \in NewEntries(curriculum) \ rec.student.ledger :
       /\ Cardinality(Allocations(curriculum, e)) = 1
       /\ rec' = Credited(curriculum, rec, e)
  /\ credits' = credits + 1
  /\ UNCHANGED <<curriculum, edits, phase>>

Edit ==
  /\ phase = "draft" /\ edits < MaxEdits
  /\ \/ rec' \in Edited(curriculum, rec) \ {rec}
     \/ /\ credits = 0  \* what the files refer to does not depend on credit
        /\ \E files \in EditedFiles(rec.files) \ {rec.files} : rec' = [rec EXCEPT !.files = files]
  /\ edits' = edits + 1
  /\ UNCHANGED <<curriculum, credits, phase>>

Validate ==
  /\ phase = "draft"
  /\ phase' = IF Constructible(rec) /\ Accepted(curriculum, rec) THEN "accepted" ELSE "refused"
  /\ UNCHANGED <<curriculum, rec, credits, edits>>

Next == Credit \/ Edit \/ Validate

Spec == Init /\ [][Next]_vars

-----------------------------------------------------------------------------
(* Properties *)

\* Generator, construction and validator count the same credit, each in its own
\* way, and find the same classes fit: no record the generator writes is refused.
BuiltRecordsAccepted == credits = 0 /\ edits = 0 => phase # "refused"

\* The exemptions with each course exempted once: of several that name it, one that
\* awards most.  Those within a category name none.
NonDuplicated(student) ==
  LET Same(e) == {d \in Exemptions(student) : d.course = e.course} IN
  {e \in Exemptions(student) :
     \/ e.course = "none"
     \/ e = CHOOSE d \in Same(e) : \A x \in Same(e) : x.aus <= d.aus}

ExemptedTwice(student) ==
  {c \in Courses : \E d, e \in Exemptions(student) : d # e /\ d.course = c /\ e.course = c}

\* What a student has towards a requirement, each course counted once however often
\* it was taken or exempted.
CreditFor(cur, student, r) ==
  LET counted == {c \in CoursesIn(EarnedEntries(student)) : r \in RequirementsOf(cur, c)}
      exempted == {e \in NonDuplicated(student) :
                     IF e.category # "none" THEN e.category = r
                     ELSE r \in RequirementsOf(cur, e.course)}
  IN SumFunction([c \in counted |-> Catalogue[c].aus]) + SumOf(exempted)

\* All of it: unique completed courses and exemptions that are not duplicated.
UniqueCredit(student) ==
  SumFunction([c \in CoursesIn(EarnedEntries(student)) |-> Catalogue[c].aus])
    + SumOf(NonDuplicated(student))

\* Unless the student has a course exempted twice, whose awards both count, an accepted
\* audit that says READY is earned: with every course counted once, the credit comes to
\* the total of the path or curriculum, and every requirement has what it asks for
\* (validate_student_history, _check_audit_credit_allocation).
ReadyIsEarned ==
  phase = "accepted" /\ rec.audit.outcome = "READY" /\ ExemptedTwice(rec.student) = {} =>
    LET Has(r) == CreditFor(curriculum, rec.student, r) IN
    /\ SumFunction([r \in Requirements(curriculum) |-> Has(r)])
         >= GraduationTotal(curriculum, rec.student.path)
    /\ \A r \in Requirements(curriculum) : Has(r) >= rec.audit.results[r].required

\* Asked in the session of an accepted record, the tools speak of one student and
\* never contradict the judgement that admitted the record: they pass exactly the
\* timetables and workloads the validator finds free, call available what it calls
\* usable, and where they judge a prerequisite at all, they judge it as it does.
ToolsJudgeAsValidator ==
  phase = "accepted" =>
    /\ SessionsAreSeparate(rec.files)
    /\ CheckPrerequisite(rec, rec.offer.target)
         \in {"UNKNOWN", PrerequisiteResult(rec.student, rec.offer.target)}
    /\ CheckWorkload(rec, rec.offer.target) = "PASS" <=> FitsWorkload(rec, rec.offer.target)
    /\ \A s \in DOMAIN rec.states :
         /\ CheckTimetable(rec, s) = "PASS" <=> ~StateConflicts(rec, s)
         /\ CheckAvailability(rec, s) <=> StateUsable(rec, s)

=============================================================================
