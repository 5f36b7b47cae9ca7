----------------------------- MODULE RecordLinks -----------------------------
(***************************************************************************)
(* The references between the files of the simulated data, for two          *)
(* students: who owns an audit and a registration, which records a case, an *)
(* approval, a script and a scenario name.  The generator gives every        *)
(* record the identifier of its student; the validator                      *)
(* (data/simulated/validator.py) checks the references file by file; the    *)
(* factory (runtime/factory.py) follows those of one scenario and builds    *)
(* the session the tools read.                                             *)
(***************************************************************************)
CONSTANT Owners  \* the students, and the identifiers of their records

\* The record an identifier names in the observable files a scenario exposes.
Kinds == {"student", "audit", "registration", "case"}

\* _build: one audit, registration, case, script and scenario for each student, and
\* an approval for those whose family needs one.
BuiltFiles(approving) ==
  [audit |-> [i \in Owners |-> i], registration |-> [i \in Owners |-> i],
   case |-> [i \in Owners |-> [student |-> i, audit |-> i, registration |-> i]],
   approval |-> [i \in approving |-> i],
   script |-> [i \in Owners |->
                 [case |-> i, approval |-> IF i \in approving THEN i ELSE "none"]],
   scenario |-> [i \in Owners |->
                   [student |-> i, audit |-> i, registration |-> i, case |-> i, script |-> i,
                    exposed |-> Kinds \X {i}]]]

-----------------------------------------------------------------------------
(* The cross-file validator *)

Resolves(file, id) == id \in DOMAIN file
ExactlyOne(records) == \E i \in records : records = {i}

\* _check_one_per_student
CheckOnePerStudent(files) ==
  \A s \in Owners, file \in {files.audit, files.registration} :
    ExactlyOne({i \in DOMAIN file : file[i] = s})

\* _check_cases: a case's audit and registration are its student's.
CheckCases(files) ==
  \A i \in DOMAIN files.case :
    LET case == files.case[i] IN
    /\ case.student \in Owners
    /\ Resolves(files.audit, case.audit) /\ files.audit[case.audit] = case.student
    /\ Resolves(files.registration, case.registration)
    /\ files.registration[case.registration] = case.student

\* _check_approvals: at most one approval for each case.
CheckApprovalLinks(files) ==
  /\ \A i \in DOMAIN files.approval : Resolves(files.case, files.approval[i])
  /\ \A i, j \in DOMAIN files.approval : i # j => files.approval[i] # files.approval[j]

\* _check_scripts and _check_script_event_target: an approval named by a step is that
\* of the script's case.
CheckScriptLinks(files) ==
  \A i \in DOMAIN files.script :
    LET script == files.script[i] IN
    /\ Resolves(files.case, script.case)
    /\ script.approval # "none" =>
         Resolves(files.approval, script.approval) /\ files.approval[script.approval] = script.case

\* _check_scripts, at its end
CheckOneScriptPerCase(files) ==
  \A c \in DOMAIN files.case : ExactlyOne({i \in DOMAIN files.script : files.script[i].case = c})

\* _check_scenarios: what a scenario names exists, belongs to its student and is exposed
\* exactly.
CheckScenarioLinks(files) ==
  \A i \in DOMAIN files.scenario :
    LET scenario == files.scenario[i] IN
    /\ scenario.student \in Owners
    /\ \A kind \in {"audit", "registration", "case", "script"} : Resolves(files[kind], scenario[kind])
    /\ files.audit[scenario.audit] = scenario.student
    /\ files.registration[scenario.registration] = scenario.student
    /\ files.case[scenario.case].student = scenario.student
    /\ files.script[scenario.script].case = scenario.case
    /\ scenario.exposed = {<<kind, scenario[kind]>> : kind \in Kinds}

\* _check_scenarios, at its end: every case has one scenario, and no script has two.
CheckOneScenarioPerCase(files) ==
  /\ \A i, j \in DOMAIN files.scenario :
       i # j => /\ files.scenario[i].case # files.scenario[j].case
                /\ files.scenario[i].script # files.scenario[j].script
  /\ \A c \in DOMAIN files.case : \E i \in DOMAIN files.scenario : files.scenario[i].case = c

CheckFiles(files) ==
  /\ CheckOnePerStudent(files) /\ CheckCases(files) /\ CheckApprovalLinks(files)
  /\ CheckScriptLinks(files) /\ CheckOneScriptPerCase(files)
  /\ CheckScenarioLinks(files) /\ CheckOneScenarioPerCase(files)

-----------------------------------------------------------------------------
(* Edits: one reference changed, one record removed, or two records mixed up *)

Without(file, id) == [i \in DOMAIN file \ {id} |-> file[i]]
MixedUp(file) == [i \in DOMAIN file |-> CHOOSE r \in {file[j] : j \in DOMAIN file} : r # file[i]]

EditedFiles(files) ==
  LET Names == Owners \cup {"none"} IN
  (UNION {{[files EXCEPT ![kind] = Without(@, i)] : i \in DOMAIN files[kind]} : kind \in DOMAIN files})
    \cup (UNION {{[files EXCEPT ![kind][i] = name] : i \in DOMAIN files[kind], name \in Names} :
                   kind \in {"audit", "registration", "approval"}})
    \cup (UNION {UNION {{[files EXCEPT ![kind][i][field] = name] :
                           i \in DOMAIN files[kind], name \in Names} :
                          field \in (UNION {DOMAIN files[kind][i] : i \in DOMAIN files[kind]}) \ {"exposed"}} :
                   kind \in {"case", "script", "scenario"}})
    \cup {[files EXCEPT ![kind] = MixedUp(@)] : kind \in {k \in DOMAIN files : DOMAIN files[k] # {}}}
    \cup {[files EXCEPT !.scenario[i].exposed = @ \cup {<<kind, j>>}] :
            i \in DOMAIN files.scenario, kind \in Kinds, j \in Owners}

-----------------------------------------------------------------------------
(* The session of a scenario *)

\* ScenarioRuntimeFactory.build: the session's identifier is made of its case.
SessionOf(files, i) ==
  LET scenario == files.scenario[i] IN
  [student |-> scenario.student, audit |-> scenario.audit, registration |-> scenario.registration,
   case |-> scenario.case, script |-> scenario.script, exposed |-> scenario.exposed,
   approvals |-> {a \in DOMAIN files.approval : files.approval[a] = scenario.case}]

\* Whose record a read of the academic tools returns: only the session's own
\* identifiers are visible.
OwnerRead(files, session, kind, id) ==
  IF id # session[kind] THEN "NOT_FOUND"
  ELSE CASE kind = "student" -> id
         [] kind = "case" -> files.case[id].student
         [] OTHER -> files[kind][id]

\* Every session is of one student and one case, with the approval and the script of
\* that case, and no two scenarios share either.
SessionsAreSeparate(files) ==
  \A i \in DOMAIN files.scenario :
    LET session == SessionOf(files, i)
        case == files.case[session.case]
    IN
    /\ \A kind \in Kinds, id \in Owners :
         OwnerRead(files, session, kind, id) \in {"NOT_FOUND", session.student}
    /\ case.audit = session.audit /\ case.registration = session.registration
    /\ files.script[session.script].approval \in session.approvals \cup {"none"}
    /\ \A a, b \in session.approvals : a = b
    /\ \A exposed \in session.exposed : exposed[2] = session[exposed[1]]
    /\ \A j \in DOMAIN files.scenario \ {i} :
         /\ SessionOf(files, j).case # session.case
         /\ SessionOf(files, j).script # session.script

=============================================================================
