--------------------------- MODULE MCActionEngine ---------------------------
(***************************************************************************)
(* Small instances of ActionEngine: the transaction scripts of the data    *)
(* set, one of each shape, over two classes of one course and one class of *)
(* a course too heavy for the student.                                     *)
(***************************************************************************)
EXTENDS ActionEngine, FiniteSets

MCOfferings == {"o1", "o2", "o3"}
MCCourses == {"c1", "c3"}
MCCourseOf == [o \in MCOfferings |-> IF o = "o3" THEN "c3" ELSE "c1"]
MCAus == [c \in MCCourses |-> IF c = "c3" THEN 4 ELSE 3]
MCSeatsAt == [o \in MCOfferings |-> IF o = "o2" THEN 2 ELSE 1]

NoView == [e \in Entities |-> 0]
View(offering, version, approvalSeen) ==
  [e \in Entities |-> IF e = offering THEN version
                      ELSE IF e = Approval THEN approvalSeen ELSE 0]

NoParams == [approval |-> FALSE, offering |-> NoOffering, course |-> NoCourse,
             retry |-> FALSE]
Register(o) == [NoParams EXCEPT !.offering = o]
Again(o)    == [NoParams EXCEPT !.offering = o, !.retry = TRUE]
Protected(params) == [params EXCEPT !.approval = TRUE, !.course = "c1"]
AskApproval == [NoParams EXCEPT !.approval = TRUE]

Write(action, params, result, pre) ==
  [action |-> action, params |-> params, result |-> result, pre |-> pre,
   mutations |-> [e \in Entities |-> NoMutation]]
Injected(step, target, event) ==
  [step EXCEPT !.mutations[target] = [event |-> event, from |-> 1]]

FirstTry(result, event) ==
  Injected(Write("SUBMIT_REGISTRATION", Register("o1"), result, View("o1", 1, 0)),
           "o1", event)
Registers(o, params, approvalSeen) ==
  Write("SUBMIT_REGISTRATION", params, "SUCCESS", View(o, 1, approvalSeen))
RequestStep(result, event) ==
  Injected(Write("REQUEST_APPROVAL", AskApproval, result, View(NoOffering, 0, 1)),
           Approval, event)

Unprotected(script) ==
  [requirement |-> FALSE, seedStatus |-> "PENDING", seedObservable |-> FALSE,
   interactive |-> FALSE, script |-> script]
ProtectedCase(seed, visible, interactive, script) ==
  [requirement |-> TRUE, seedStatus |-> seed, seedObservable |-> visible,
   interactive |-> interactive, script |-> script]

\* Cases without an approval: direct registration, the four retryable failures
\* followed by the alternative class, exceptions, and a workload over the limit.
RegistrationCases ==
  {Unprotected(<<Registers("o1", Register("o1"), 0)>>),
   Unprotected(<<Registers("o3", Register("o3"), 0)>>),
   Unprotected(<<FirstTry("FAILURE", "VACANCY_BECOMES_ZERO"),
                 Registers("o2", Again("o2"), 0)>>),
   Unprotected(<<FirstTry("FAILURE", "CLASS_BECOMES_UNAVAILABLE"),
                 Registers("o2", Again("o2"), 0)>>),
   Unprotected(<<FirstTry("FAILURE", "STATE_CHANGED"), Registers("o2", Again("o2"), 0)>>),
   Unprotected(<<Write("SUBMIT_REGISTRATION", Register("o1"), "FAILURE", View("o1", 1, 0)),
                 Registers("o2", Again("o2"), 0)>>),
   Unprotected(<<FirstTry("SUCCESS", "VACANCY_BECOMES_ZERO")>>),
   Unprotected(<<Write("SUBMIT_EXCEPTION", NoParams, "REQUIRED_INFORMATION_MISSING",
                       NoView)>>),
   Unprotected(<<Write("SUBMIT_EXCEPTION", NoParams, "SUCCESS", NoView)>>)}

\* Cases with an approval: granted, rejected and pending seeds, each also with
\* the decision left to a human, and one whose grant is visible from the start.
ApprovalCases ==
  LET granted  == RequestStep("SUCCESS", "APPROVED")
      enrols   == <<granted, Registers("o1", Protected(Register("o1")), 2)>>
      waives   == <<granted, Write("SUBMIT_WAIVER", Protected(NoParams), "SUCCESS",
                                   View(NoOffering, 0, 2))>>
      rejected == <<RequestStep("APPROVAL_REJECTED", "REJECTED")>>
      pending  == <<RequestStep("APPROVAL_PENDING", "PENDING")>>
  IN  {ProtectedCase("APPROVED", FALSE, i, s) : i \in BOOLEAN, s \in {enrols, waives}}
      \cup {ProtectedCase("REJECTED", FALSE, i, rejected) : i \in BOOLEAN}
      \cup {ProtectedCase("PENDING", FALSE, i, pending) : i \in BOOLEAN}
      \cup {ProtectedCase("APPROVED", TRUE, FALSE, waives)}

\* What callers send: every write some script contains, with views of any age.
RegistrationRequests ==
  [action : {"SUBMIT_REGISTRATION"}, params : {Register("o1"), Register("o3"), Again("o2")},
   expected : {View(o, v, 0) : o \in MCOfferings, v \in 0..2}]
  \cup [action : {"SUBMIT_EXCEPTION", "SUBMIT_REGISTRATION"}, params : {NoParams},
        expected : {NoView, [NoView EXCEPT ![Case] = 1], View(NoOffering, 0, 1)}]
ApprovalRequests ==
  [action : {"REQUEST_APPROVAL"}, params : {AskApproval, NoParams},
   expected : {View(NoOffering, 0, v) : v \in 0..3}]
  \cup [action : {"SUBMIT_REGISTRATION"}, params : {Protected(Register("o1")), Register("o1")},
        expected : {View("o1", v, w) : v \in 0..2, w \in 0..3}]
  \cup [action : {"SUBMIT_WAIVER"}, params : {Protected(NoParams)},
        expected : {[View(NoOffering, 0, w) EXCEPT ![Case] = c] : w \in 0..3, c \in 0..3}]

MCScenarios == RegistrationCases \cup ApprovalCases
MCRequests == RegistrationRequests \cup ApprovalRequests

=============================================================================
