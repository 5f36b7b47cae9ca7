------------------------- MODULE StudentRecordProofs -------------------------
(***************************************************************************)
(* What the agent is told of an accepted student is what the validator      *)
(* found: ToolsJudgeAsValidator, for every catalogue, every set of classes  *)
(* and curricula, every reading of prerequisite texts and any number of      *)
(* edits.  The files that hold together keep the sessions apart             *)
(* (CheckedFilesSeparate); the tools and the validator judge times alike    *)
(* (OverlapIsConflict), meeting by meeting.                                 *)
(***************************************************************************)
EXTENDS StudentRecord, FiniteSetTheorems, TLAPS

-----------------------------------------------------------------------------
(* The laws of finite sums: SumFunctionOnSet(f, S), which adds f[x] for the x of a    *)
(* finite set S in an order of its choice, is 0 on the empty set, adds up over        *)
(* disjoint sets and does not depend on the order or on the names of the elements.    *)
(* The fold is a recursive function on the subsets of S.  Each law is proved by       *)
(* looking at a smallest set that breaks it (SmallestSet).                            *)

\* What a fold takes from s first.
Chosen(s) == CHOOSE x \in s : TRUE

\* g is the recursive function by which f is added up over the subsets of S.
AddsUp(g, f, S) ==
  g = [s \in SUBSET S |-> IF s = {} THEN 0 ELSE f[Chosen(s)] + g[s \ {Chosen(s)}]]

LEMMA ChosenIn == \A s : s # {} => Chosen(s) \in s /\ s \ {Chosen(s)} # s
  BY DEF Chosen

\* Of subsets of a finite set, one has no other below it.
LEMMA SmallestSet ==
  ASSUME NEW S, IsFiniteSet(S), NEW Bad \in SUBSET SUBSET S, Bad # {}
  PROVE  \E T \in Bad : \A U \in SUBSET T : U # T => U \notin Bad
<1>1. IsWellFoundedOn(StrictSubsetOrdering(S), SUBSET S)
  BY FS_StrictSubsetOrderingWellFounded, FS_FiniteSubsetsOfFinite
<1>2. PICK T \in Bad : \A U \in Bad : ~ (<<U, T>> \in StrictSubsetOrdering(S))
  BY <1>1, WFMin
<1>3. \A U \in SUBSET T : U # T /\ U \in Bad => <<U, T>> \in StrictSubsetOrdering(S)
  BY DEF StrictSubsetOrdering
<1>4. \A U \in SUBSET T : U # T => U \notin Bad
  BY <1>2, <1>3
<1> QED
  BY <1>4

LEMMA SumIsFold ==
  ASSUME NEW f, NEW S
  PROVE  SumFunctionOnSet(f, S) = (CHOOSE g : AddsUp(g, f, S))[S]
  BY DEF SumFunctionOnSet, FoldFunctionOnSet, MapThenFoldSet, AddsUp, Chosen

\* Two recursive functions agree where both are defined.
LEMMA AddsUpOnce ==
  ASSUME NEW f, NEW S, NEW T, NEW g, NEW h, AddsUp(g, f, S), AddsUp(h, f, T),
         NEW R \in SUBSET (S \cap T), IsFiniteSet(R)
  PROVE  g[R] = h[R]
<1> DEFINE Bad == {s \in SUBSET R : g[s] # h[s]}
<1>1. \A s \in SUBSET R :
        /\ g[s] = IF s = {} THEN 0 ELSE f[Chosen(s)] + g[s \ {Chosen(s)}]
        /\ h[s] = IF s = {} THEN 0 ELSE f[Chosen(s)] + h[s \ {Chosen(s)}]
  BY DEF AddsUp
<1>2. SUFFICES ASSUME Bad # {} PROVE FALSE
  OBVIOUS
<1> HIDE DEF Bad
<1>3. PICK s \in Bad : \A U \in SUBSET s : U # s => U \notin Bad
  <2>1. Bad \in SUBSET SUBSET R
    BY DEF Bad
  <2> QED
    BY <1>2, <2>1, SmallestSet
<1>4. s \in SUBSET R /\ g[s] # h[s]
  BY DEF Bad
<1>5. s # {}
  BY <1>1, <1>4
<1>6. s \ {Chosen(s)} \notin Bad
  BY <1>3, <1>5, ChosenIn
<1>7. g[s \ {Chosen(s)}] = h[s \ {Chosen(s)}]
  BY <1>4, <1>6 DEF Bad
<1> QED
  BY <1>1, <1>4, <1>5, <1>7

\* Over a finite set there is one.
LEMMA AddsUpSomehow ==
  ASSUME NEW f, NEW S, IsFiniteSet(S)
  PROVE  \E g : AddsUp(g, f, S)
<1> DEFINE Bad == {T \in SUBSET S : ~ \E g : AddsUp(g, f, T)}
<1>1. SUFFICES ASSUME Bad # {} PROVE FALSE
  OBVIOUS
<1> HIDE DEF Bad
<1>2. PICK T \in Bad : \A U \in SUBSET T : U # T => U \notin Bad
  <2>1. Bad \in SUBSET SUBSET S
    BY DEF Bad
  <2> QED
    BY <1>1, <2>1, SmallestSet
<1>3. T \in SUBSET S /\ ~ \E g : AddsUp(g, f, T)
  BY DEF Bad
<1>4. \A U \in SUBSET T : U # T => \E g : AddsUp(g, f, U)
  BY <1>2, <1>3 DEF Bad
<1> DEFINE Below(U) == CHOOSE g : AddsUp(g, f, U)
<1>5. \A U \in SUBSET T : U # T => AddsUp(Below(U), f, U)
  BY <1>4
<1> HIDE DEF Below
<1> DEFINE Value(s) == Below(s)[s]
<1>6. \A s \in SUBSET T : s # T =>
        Value(s) = IF s = {} THEN 0 ELSE f[Chosen(s)] + Value(s \ {Chosen(s)})
  <2> SUFFICES ASSUME NEW s \in SUBSET T, s # T
               PROVE  Value(s) = IF s = {} THEN 0 ELSE f[Chosen(s)] + Value(s \ {Chosen(s)})
    OBVIOUS
  <2>1. Value(s) = IF s = {} THEN 0 ELSE f[Chosen(s)] + Below(s)[s \ {Chosen(s)}]
    BY <1>5 DEF AddsUp
  <2>2. ASSUME s # {} PROVE Below(s)[s \ {Chosen(s)}] = Value(s \ {Chosen(s)})
    <3> DEFINE less == s \ {Chosen(s)}
    <3>1. less \in SUBSET T /\ less # T /\ less \in SUBSET (s \cap less)
      BY <2>2, ChosenIn
    <3>2. IsFiniteSet(less)
      BY <1>3, <3>1, FS_Subset
    <3>3. AddsUp(Below(s), f, s) /\ AddsUp(Below(less), f, less)
      BY <1>5, <3>1
    <3> HIDE DEF less
    <3>4. Below(s)[less] = Below(less)[less]
      BY <3>1, <3>2, <3>3, AddsUpOnce
    <3> QED
      BY <3>4 DEF less
  <2> QED
    BY <2>1, <2>2
<1> DEFINE whole == [s \in SUBSET T |->
                       IF s # T THEN Value(s)
                       ELSE IF s = {} THEN 0 ELSE f[Chosen(s)] + Value(s \ {Chosen(s)})]
<1>7. \A s \in SUBSET T :
        whole[s] = IF s = {} THEN 0 ELSE f[Chosen(s)] + whole[s \ {Chosen(s)}]
  <2> SUFFICES ASSUME NEW s \in SUBSET T
               PROVE  whole[s] = IF s = {} THEN 0 ELSE f[Chosen(s)] + whole[s \ {Chosen(s)}]
    OBVIOUS
  <2> HIDE DEF Value
  <2>1. whole[s] = IF s = {} THEN 0 ELSE f[Chosen(s)] + Value(s \ {Chosen(s)})
    BY <1>6
  <2>2. s # {} => whole[s \ {Chosen(s)}] = Value(s \ {Chosen(s)})
    BY ChosenIn
  <2> QED
    BY <2>1, <2>2
<1>8. AddsUp(whole, f, T)
  <2> DEFINE step(s) == IF s = {} THEN 0 ELSE f[Chosen(s)] + whole[s \ {Chosen(s)}]
  <2>1. \A s \in SUBSET T : whole[s] = step(s)
    BY <1>7
  <2>2. whole = [s \in SUBSET T |-> whole[s]]
    OBVIOUS
  <2> HIDE DEF whole
  <2>3. whole = [s \in SUBSET T |-> step(s)]
    BY <2>1, <2>2
  <2> QED
    BY <2>3 DEF AddsUp
<1> QED
  BY <1>3, <1>8

-----------------------------------------------------------------------------
(* The laws *)

LEMMA SumOfNone == \A f : SumFunctionOnSet(f, {}) = 0
<1> TAKE f
<1>1. PICK g : AddsUp(g, f, {})
  BY AddsUpSomehow, FS_EmptySet
<1>2. AddsUp(CHOOSE h : AddsUp(h, f, {}), f, {})
  BY <1>1
<1> QED
  BY <1>2, SumIsFold DEF AddsUp

LEMMA SumOfChosen ==
  ASSUME NEW f, NEW S, IsFiniteSet(S), S # {}
  PROVE  SumFunctionOnSet(f, S) = f[Chosen(S)] + SumFunctionOnSet(f, S \ {Chosen(S)})
<1> DEFINE less == S \ {Chosen(S)}
           Adding(T) == CHOOSE g : AddsUp(g, f, T)
<1>1. IsFiniteSet(less) /\ less \in SUBSET (S \cap less)
  BY FS_Subset
<1>2. AddsUp(Adding(S), f, S) /\ AddsUp(Adding(less), f, less)
  BY <1>1, AddsUpSomehow
<1> HIDE DEF Adding
<1>3. Adding(S)[less] = Adding(less)[less]
  <2> HIDE DEF less
  <2> QED
    BY <1>1, <1>2, AddsUpOnce
<1>4. Adding(S)[S] = f[Chosen(S)] + Adding(S)[less]
  BY <1>2 DEF AddsUp
<1>5. SumFunctionOnSet(f, S) = Adding(S)[S] /\ SumFunctionOnSet(f, less) = Adding(less)[less]
  BY SumIsFold DEF Adding
<1> QED
  BY <1>3, <1>4, <1>5

LEMMA SumIsNatural ==
  ASSUME NEW f, NEW S, IsFiniteSet(S), \A x \in S : f[x] \in Nat
  PROVE  SumFunctionOnSet(f, S) \in Nat
<1> DEFINE Bad == {T \in SUBSET S : SumFunctionOnSet(f, T) \notin Nat}
<1>1. SUFFICES ASSUME Bad # {} PROVE FALSE
  OBVIOUS
<1> HIDE DEF Bad
<1>2. PICK T \in Bad : \A U \in SUBSET T : U # T => U \notin Bad
  <2>1. Bad \in SUBSET SUBSET S
    BY DEF Bad
  <2> QED
    BY <1>1, <2>1, SmallestSet
<1>3. T \in SUBSET S /\ SumFunctionOnSet(f, T) \notin Nat /\ IsFiniteSet(T)
  BY FS_Subset DEF Bad
<1>4. T # {}
  BY <1>3, SumOfNone
<1>5. SumFunctionOnSet(f, T \ {Chosen(T)}) \in Nat
  BY <1>2, <1>3, <1>4, ChosenIn DEF Bad
<1>6. f[Chosen(T)] \in Nat
  BY <1>3, <1>4, ChosenIn
<1> QED
  BY <1>3, <1>4, <1>5, <1>6, SumOfChosen

\* Any element may be added last.
LEMMA SumWithOneMore ==
  ASSUME NEW f, NEW S, IsFiniteSet(S), NEW x \in S, \A y \in S : f[y] \in Nat
  PROVE  SumFunctionOnSet(f, S) = f[x] + SumFunctionOnSet(f, S \ {x})
<1> DEFINE Sum(T) == SumFunctionOnSet(f, T)
           Bad == {T \in SUBSET S : \E y \in T : Sum(T) # f[y] + Sum(T \ {y})}
<1>1. SUFFICES ASSUME Bad # {} PROVE FALSE
  OBVIOUS
<1> HIDE DEF Bad
<1>2. PICK T \in Bad : \A U \in SUBSET T : U # T => U \notin Bad
  <2>1. Bad \in SUBSET SUBSET S
    BY DEF Bad
  <2> QED
    BY <1>1, <2>1, SmallestSet
<1>3. T \in SUBSET S
  BY DEF Bad
<1>4. PICK y \in T : Sum(T) # f[y] + Sum(T \ {y})
  BY DEF Bad
<1>5. \A U : U \in SUBSET T /\ U # T => \A z \in U : Sum(U) = f[z] + Sum(U \ {z})
  <2> SUFFICES ASSUME NEW U \in SUBSET T, U # T
               PROVE  \A z \in U : Sum(U) = f[z] + Sum(U \ {z})
    OBVIOUS
  <2>1. U \notin Bad /\ U \in SUBSET S
    BY <1>2, <1>3
  <2> QED
    BY <2>1 DEF Bad
<1> DEFINE c == Chosen(T)
<1>6. c \in T /\ Sum(T) = f[c] + Sum(T \ {c})
  BY <1>3, <1>4, ChosenIn, SumOfChosen, FS_Subset
<1> HIDE DEF c
<1>7. y # c
  BY <1>4, <1>6
<1> DEFINE both == (T \ {c}) \ {y}
<1>8. Sum(T \ {c}) = f[y] + Sum(both)
  <2>1. T \ {c} \in SUBSET T /\ T \ {c} # T /\ y \in T \ {c}
    BY <1>6, <1>7
  <2> HIDE DEF Sum
  <2> QED
    BY <1>5, <2>1
<1>9. Sum(T \ {y}) = f[c] + Sum(both)
  <2>1. T \ {y} \in SUBSET T /\ T \ {y} # T /\ c \in T \ {y} /\ (T \ {y}) \ {c} = both
    BY <1>6, <1>7
  <2> HIDE DEF Sum, both
  <2> QED
    BY <1>5, <2>1
<1>10. Sum(both) \in Nat /\ f[c] \in Nat /\ f[y] \in Nat
  <2>1. IsFiniteSet(both) /\ \A z \in both : f[z] \in Nat
    BY <1>3, FS_Subset
  <2> QED
    BY <1>3, <1>6, <2>1, SumIsNatural
<1> HIDE DEF both, Sum
<1> QED
  BY <1>4, <1>6, <1>8, <1>9, <1>10

\* The sum over two sets without a common element is the sum of both.
LEMMA SumOfTwo ==
  ASSUME NEW f, NEW S, NEW R, IsFiniteSet(S), IsFiniteSet(R), S \cap R = {},
         \A x \in S \cup R : f[x] \in Nat
  PROVE  SumFunctionOnSet(f, S \cup R) = SumFunctionOnSet(f, S) + SumFunctionOnSet(f, R)
<1> DEFINE Sum(T) == SumFunctionOnSet(f, T)
           Bad == {T \in SUBSET R : Sum(S \cup T) # Sum(S) + Sum(T)}
<1>1. SUFFICES ASSUME Bad # {} PROVE FALSE
  OBVIOUS
<1> HIDE DEF Bad
<1>2. PICK T \in Bad : \A U \in SUBSET T : U # T => U \notin Bad
  <2>1. Bad \in SUBSET SUBSET R
    BY DEF Bad
  <2> QED
    BY <1>1, <2>1, SmallestSet
<1>3. T \in SUBSET R /\ Sum(S \cup T) # Sum(S) + Sum(T)
  BY DEF Bad
<1>4. \A U \in SUBSET (S \cup R) : IsFiniteSet(U) /\ Sum(U) \in Nat
  <2> TAKE U \in SUBSET (S \cup R)
  <2>1. IsFiniteSet(U)
    BY FS_Union, FS_Subset
  <2> QED
    BY <2>1, SumIsNatural
<1>5. T # {}
  <2>1. S \cup {} = S /\ S \in SUBSET (S \cup R)
    OBVIOUS
  <2>2. Sum(S) = Sum(S) + 0
    BY <1>4, <2>1
  <2> QED
    BY <1>3, <2>1, <2>2, SumOfNone
<1>6. PICK x \in T : TRUE
  BY <1>5
<1>7. Sum(T) = f[x] + Sum(T \ {x})
  BY <1>3, <1>4, SumWithOneMore
<1>8. Sum(S \cup T) = f[x] + Sum(S \cup (T \ {x}))
  <2>1. /\ S \cup T \in SUBSET (S \cup R) /\ x \in S \cup T
        /\ (S \cup T) \ {x} = S \cup (T \ {x})
    BY <1>3
  <2> QED
    BY <1>4, <2>1, SumWithOneMore
<1>9. Sum(S \cup (T \ {x})) = Sum(S) + Sum(T \ {x})
  BY <1>2, <1>3 DEF Bad
<1>10. /\ Sum(S) \in Nat /\ Sum(T \ {x}) \in Nat /\ f[x] \in Nat
  BY <1>3, <1>4
<1> HIDE DEF Sum
<1> QED
  BY <1>3, <1>7, <1>8, <1>9, <1>10

\* Renaming the elements one by one does not change a sum.
LEMMA SumRenamed ==
  ASSUME NEW f, NEW g, NEW S, NEW R, IsFiniteSet(S), NEW h \in Bijection(S, R),
         \A x \in S : f[x] \in Nat /\ g[h[x]] = f[x]
  PROVE  SumFunctionOnSet(g, R) = SumFunctionOnSet(f, S)
<1> DEFINE Image(T) == {h[x] : x \in T}
           Bad == {T \in SUBSET S : SumFunctionOnSet(g, Image(T)) # SumFunctionOnSet(f, T)}
<1>1. h \in [S -> R] /\ (\A x, y \in S : h[x] = h[y] => x = y) /\ \A y \in R : \E x \in S : h[x] = y
  BY DEF Bijection, Injection, Surjection, IsInjective
<1>2. Image(S) = R
  BY <1>1
<1>3. IsFiniteSet(R)
  BY FS_Bijection DEF ExistsBijection
<1>4. SUFFICES ASSUME Bad # {} PROVE FALSE
  BY <1>2
<1> HIDE DEF Bad
<1>5. PICK T \in Bad : \A U \in SUBSET T : U # T => U \notin Bad
  <2>1. Bad \in SUBSET SUBSET S
    BY DEF Bad
  <2> QED
    BY <1>4, <2>1, SmallestSet
<1>6. T \in SUBSET S /\ SumFunctionOnSet(g, Image(T)) # SumFunctionOnSet(f, T)
  BY DEF Bad
<1>7. T # {}
  <2>1. Image({}) = {}
    OBVIOUS
  <2> QED
    BY <1>6, <2>1, SumOfNone
<1>8. PICK x \in T : TRUE
  BY <1>7
<1>9. SumFunctionOnSet(f, T) = f[x] + SumFunctionOnSet(f, T \ {x})
  BY <1>6, FS_Subset, SumWithOneMore
<1>10. SumFunctionOnSet(g, Image(T)) = g[h[x]] + SumFunctionOnSet(g, Image(T) \ {h[x]})
  <2>1. h[x] \in Image(T) /\ Image(T) \in SUBSET R
    BY <1>1, <1>6, <1>8
  <2>2. \A y \in Image(T) : g[y] \in Nat
    BY <1>6
  <2>3. IsFiniteSet(Image(T))
    BY <1>3, <2>1, FS_Subset
  <2> HIDE DEF Image
  <2> QED
    BY <2>1, <2>2, <2>3, SumWithOneMore
<1>11. Image(T) \ {h[x]} = Image(T \ {x})
  BY <1>1, <1>6, <1>8
<1>12. SumFunctionOnSet(g, Image(T \ {x})) = SumFunctionOnSet(f, T \ {x})
  BY <1>5, <1>6, <1>8 DEF Bad
<1> HIDE DEF Image
<1> QED
  BY <1>6, <1>8, <1>9, <1>10, <1>11, <1>12

\* Only the values on the set count.
LEMMA SumOfSame ==
  ASSUME NEW f, NEW g, NEW S, IsFiniteSet(S), \A x \in S : f[x] \in Nat /\ g[x] = f[x]
  PROVE  SumFunctionOnSet(g, S) = SumFunctionOnSet(f, S)
<1> DEFINE self == [x \in S |-> x]
<1>1. self \in Bijection(S, S)
  BY DEF Bijection, Injection, Surjection, IsInjective
<1>2. \A x \in S : g[self[x]] = f[x]
  OBVIOUS
<1> HIDE DEF self
<1> QED
  BY <1>1, <1>2, SumRenamed

LEMMA SumOfZeros ==
  ASSUME NEW f, NEW S, IsFiniteSet(S), \A x \in S : f[x] = 0
  PROVE  SumFunctionOnSet(f, S) = 0
<1> DEFINE Bad == {T \in SUBSET S : SumFunctionOnSet(f, T) # 0}
<1>1. SUFFICES ASSUME Bad # {} PROVE FALSE
  OBVIOUS
<1> HIDE DEF Bad
<1>2. PICK T \in Bad : \A U \in SUBSET T : U # T => U \notin Bad
  <2>1. Bad \in SUBSET SUBSET S
    BY DEF Bad
  <2> QED
    BY <1>1, <2>1, SmallestSet
<1>3. T \in SUBSET S /\ SumFunctionOnSet(f, T) # 0 /\ IsFiniteSet(T)
  BY FS_Subset DEF Bad
<1>4. T # {}
  BY <1>3, SumOfNone
<1>5. SumFunctionOnSet(f, T \ {Chosen(T)}) = 0 /\ f[Chosen(T)] = 0
  BY <1>2, <1>3, <1>4, ChosenIn DEF Bad
<1> QED
  BY <1>3, <1>4, <1>5, SumOfChosen

\* Two functions that differ at one element differ in their sums by as much.
LEMMA SumRaised ==
  ASSUME NEW f, NEW g, NEW S, IsFiniteSet(S), NEW x \in S, NEW d \in Nat,
         \A y \in S : f[y] \in Nat /\ g[y] = f[y] + (IF y = x THEN d ELSE 0)
  PROVE  SumFunctionOnSet(g, S) = SumFunctionOnSet(f, S) + d
<1> DEFINE others == S \ {x}
<1>1. IsFiniteSet(others)
  BY FS_Subset
<1>2. SumFunctionOnSet(f, S) = f[x] + SumFunctionOnSet(f, others)
  BY SumWithOneMore
<1>3. SumFunctionOnSet(g, S) = g[x] + SumFunctionOnSet(g, others)
  <2>1. \A y \in S : g[y] \in Nat
    OBVIOUS
  <2> QED
    BY <2>1, SumWithOneMore
<1>4. \A y \in others : f[y] \in Nat /\ g[y] = f[y]
  OBVIOUS
<1> HIDE DEF others
<1>5. SumFunctionOnSet(g, others) = SumFunctionOnSet(f, others)
  BY <1>1, <1>4, SumOfSame
<1>6. SumFunctionOnSet(f, others) \in Nat
  BY <1>1, <1>4, SumIsNatural
<1> QED
  BY <1>2, <1>3, <1>5, <1>6

-----------------------------------------------------------------------------
(* The record and its files *)

FileNames == {"audit", "registration", "case", "approval", "script", "scenario"}

\* The files are of the kinds an edit may touch, and what is accepted was checked.
LinkInv ==
  /\ "files" \in DOMAIN rec
  /\ phase = "accepted" => CheckFiles(rec.files)

-----------------------------------------------------------------------------
(* The references between the files *)

\* References the validator accepts keep the sessions apart.
LEMMA CheckedFilesSeparate ==
  ASSUME NEW files, CheckFiles(files)
  PROVE  SessionsAreSeparate(files)
<1> SUFFICES ASSUME NEW i \in DOMAIN files.scenario
             PROVE  LET session == SessionOf(files, i)
                        case == files.case[session.case]
                    IN
                    /\ \A kind \in Kinds, id \in {"mine", "theirs"} :
                         OwnerRead(files, session, kind, id) \in {"NOT_FOUND", session.student}
                    /\ case.audit = session.audit /\ case.registration = session.registration
                    /\ files.script[session.script].approval \in session.approvals \cup {"none"}
                    /\ \A a, b \in session.approvals : a = b
                    /\ \A exposed \in session.exposed : exposed[2] = session[exposed[1]]
                    /\ \A j \in DOMAIN files.scenario \ {i} :
                         /\ SessionOf(files, j).case # session.case
                         /\ SessionOf(files, j).script # session.script
  BY DEF SessionsAreSeparate
<1> DEFINE scenario == files.scenario[i]
           session == SessionOf(files, i)
           case == files.case[session.case]
<1>1. /\ session.student = scenario.student /\ session.audit = scenario.audit
      /\ session.registration = scenario.registration /\ session.case = scenario.case
      /\ session.script = scenario.script /\ session.exposed = scenario.exposed
      /\ session.approvals = {a \in DOMAIN files.approval : files.approval[a] = scenario.case}
  BY DEF SessionOf
<1>2. /\ scenario.student \in {"mine", "theirs"}
      /\ scenario.audit \in DOMAIN files.audit /\ scenario.registration \in DOMAIN files.registration
      /\ scenario.case \in DOMAIN files.case /\ scenario.script \in DOMAIN files.script
      /\ files.audit[scenario.audit] = scenario.student
      /\ files.registration[scenario.registration] = scenario.student
      /\ files.case[scenario.case].student = scenario.student
      /\ files.script[scenario.script].case = scenario.case
      /\ scenario.exposed = {<<kind, scenario[kind]>> : kind \in Kinds}
  BY DEF CheckFiles, CheckScenarioLinks, Resolves
<1>3. \A kind \in Kinds, id \in {"mine", "theirs"} :
        OwnerRead(files, session, kind, id) \in {"NOT_FOUND", session.student}
  <2> SUFFICES ASSUME NEW kind \in Kinds, NEW id \in {"mine", "theirs"}, id = session[kind]
               PROVE  OwnerRead(files, session, kind, id) = session.student
    BY DEF OwnerRead
  <2>1. CASE kind = "student"
    BY <2>1 DEF OwnerRead
  <2>2. CASE kind = "case"
    BY <1>1, <1>2, <2>2 DEF OwnerRead
  <2>3. CASE kind = "audit"
    BY <1>1, <1>2, <2>3 DEF OwnerRead
  <2>4. CASE kind = "registration"
    BY <1>1, <1>2, <2>4 DEF OwnerRead
  <2> QED
    BY <2>1, <2>2, <2>3, <2>4 DEF Kinds
<1>4. case.audit = session.audit /\ case.registration = session.registration
  <2>1. /\ case.student = scenario.student
        /\ case.audit \in DOMAIN files.audit /\ files.audit[case.audit] = scenario.student
        /\ case.registration \in DOMAIN files.registration
        /\ files.registration[case.registration] = scenario.student
    BY <1>1, <1>2 DEF CheckFiles, CheckCases, Resolves
  <2>2. /\ ExactlyOne({x \in DOMAIN files.audit : files.audit[x] = scenario.student})
        /\ ExactlyOne({x \in DOMAIN files.registration :
                          files.registration[x] = scenario.student})
    BY <1>2 DEF CheckFiles, CheckOnePerStudent
  <2>3. case.audit = scenario.audit
    <3>1. /\ case.audit \in {x \in DOMAIN files.audit : files.audit[x] = scenario.student}
          /\ scenario.audit \in {x \in DOMAIN files.audit : files.audit[x] = scenario.student}
      BY <1>2, <2>1
    <3> QED
      BY <2>2, <3>1 DEF ExactlyOne
  <2>4. case.registration = scenario.registration
    <3>1. /\ case.registration \in
               {x \in DOMAIN files.registration : files.registration[x] = scenario.student}
          /\ scenario.registration \in
               {x \in DOMAIN files.registration : files.registration[x] = scenario.student}
      BY <1>2, <2>1
    <3> QED
      BY <2>2, <3>1 DEF ExactlyOne
  <2> QED
    BY <1>1, <2>3, <2>4
<1>5. files.script[session.script].approval \in session.approvals \cup {"none"}
  BY <1>1, <1>2 DEF CheckFiles, CheckScriptLinks, Resolves
<1>6. \A a, b \in session.approvals : a = b
  BY <1>1 DEF CheckFiles, CheckApprovalLinks
<1>7. \A exposed \in session.exposed : exposed[2] = session[exposed[1]]
  BY <1>1, <1>2 DEF Kinds
<1>8. \A j \in DOMAIN files.scenario \ {i} :
        /\ SessionOf(files, j).case # session.case
        /\ SessionOf(files, j).script # session.script
  BY DEF CheckFiles, CheckOneScenarioPerCase, SessionOf
<1> QED
  BY <1>3, <1>4, <1>5, <1>6, <1>7, <1>8

-----------------------------------------------------------------------------
(* The judgement of times *)

\* The tools and the validator judge two meetings alike.
LEMMA OverlapIsConflict ==
  \A m, n : MeetingsOverlap(m, n) \in {"YES", "UNKNOWN"} <=> MeetingConflicts(m, n)
<1> TAKE m, n
<1>1. CASE m.at = 0 \/ n.at = 0
  BY <1>1 DEF MeetingsOverlap, MeetingConflicts
<1>2. CASE m.at # 0 /\ n.at # 0 /\ m.at # n.at
  BY <1>2 DEF MeetingsOverlap, MeetingConflicts
<1>3. CASE m.at # 0 /\ n.at # 0 /\ m.at = n.at
  BY <1>3 DEF MeetingsOverlap, MeetingConflicts
<1> QED
  BY <1>1, <1>2, <1>3

\* A timetable passes exactly where no meeting conflicts.
LEMMA TimetableIsJudged ==
  ASSUME NEW r, NEW s
  PROVE  CheckTimetable(r, s) = "PASS" <=> ~StateConflicts(r, s)
<1> DEFINE Meetings == Classes[r.states[s].class].meetings
           overlaps == {MeetingsOverlap(m, n) : m \in Meetings, n \in Timetabled(r.registration)}
<1>1. CheckTimetable(r, s) = "PASS" <=> "YES" \notin overlaps /\ "UNKNOWN" \notin overlaps
  BY DEF CheckTimetable
<1>2. \A m \in Meetings, n \in Timetabled(r.registration) :
        MeetingConflicts(m, n) <=> MeetingsOverlap(m, n) \in {"YES", "UNKNOWN"}
  BY OverlapIsConflict
<1> QED
  BY <1>1, <1>2 DEF StateConflicts, MeetingsConflict

-----------------------------------------------------------------------------
(* The specification *)

LEMMA LinkInit == Init => LinkInv
  BY DEF Init, LinkInv, Build

LEMMA LinkStep == LinkInv /\ [Next]_vars => LinkInv'
<1> SUFFICES ASSUME LinkInv, [Next]_vars PROVE LinkInv'
  OBVIOUS
<1>1. CASE Credit
  BY <1>1 DEF Credit, LinkInv, Credited
<1>2. CASE Edit
  BY <1>2 DEF Edit, LinkInv, Edited
<1>3. CASE Validate
  BY <1>3 DEF Validate, LinkInv, Accepted
<1>4. CASE UNCHANGED vars
  BY <1>4 DEF vars, LinkInv
<1> QED
  BY <1>1, <1>2, <1>3, <1>4 DEF Next

LEMMA LinkInvHolds == Spec => []LinkInv
  BY LinkInit, LinkStep, PTL DEF Spec

\* Asked in the session of an accepted record, the course tools
\* (tools/course.py) never contradict the validator (data/simulated/validator.py),
\* and the session is of one student and one case (runtime/factory.py).
THEOREM ToolsAgreeWithTheValidator == Spec => []ToolsJudgeAsValidator
<1>1. LinkInv => ToolsJudgeAsValidator
  <2> SUFFICES ASSUME LinkInv, phase = "accepted"
               PROVE  /\ SessionsAreSeparate(rec.files)
                      /\ CheckPrerequisite(rec, rec.offer.target)
                           \in {"UNKNOWN", PrerequisiteResult(rec.student, rec.offer.target)}
                      /\ CheckWorkload(rec, rec.offer.target) = "PASS"
                           <=> FitsWorkload(rec, rec.offer.target)
                      /\ \A s \in DOMAIN rec.states :
                           /\ CheckTimetable(rec, s) = "PASS" <=> ~StateConflicts(rec, s)
                           /\ CheckAvailability(rec, s) <=> StateUsable(rec, s)
    BY DEF ToolsJudgeAsValidator
  <2>1. SessionsAreSeparate(rec.files)
    BY CheckedFilesSeparate DEF LinkInv
  <2>2. CheckPrerequisite(rec, rec.offer.target)
          \in {"UNKNOWN", PrerequisiteResult(rec.student, rec.offer.target)}
    BY DEF CheckPrerequisite, PrerequisiteResult, EvaluatePrerequisite
  <2>3. CheckWorkload(rec, rec.offer.target) = "PASS" <=> FitsWorkload(rec, rec.offer.target)
    BY DEF CheckWorkload, FitsWorkload
  <2>4. ASSUME NEW s \in DOMAIN rec.states
        PROVE  /\ CheckTimetable(rec, s) = "PASS" <=> ~StateConflicts(rec, s)
               /\ CheckAvailability(rec, s) <=> StateUsable(rec, s)
    BY TimetableIsJudged DEF CheckAvailability, StateUsable
  <2> QED
    BY <2>1, <2>2, <2>3, <2>4
<1> QED
  BY <1>1, LinkInvHolds, PTL

-----------------------------------------------------------------------------
(* Credit *)

\* The ledger is a finite list of entries, no course in it is filed under a category,
\* and what is accepted was constructed and checked.
LedgerInv ==
  /\ curriculum \in Curricula
  /\ "student" \in DOMAIN rec /\ "ledger" \in DOMAIN rec.student
  /\ IsFiniteSet(rec.student.ledger)
  /\ \A e \in rec.student.ledger :
       /\ {"kind", "category"} \subseteq DOMAIN e
       /\ e.kind = "earned" => e.category = "none"
  /\ phase = "accepted" => Constructible(rec) /\ Accepted(curriculum, rec)

\* The sum over some entries is the sum of their AUs in the whole ledger.
LEMMA SumWithinLedger ==
  ASSUME NEW L, IsFiniteSet(L), \A e \in L : e.aus \in Nat, NEW E \in SUBSET L
  PROVE  SumOf(E) = SumFunctionOnSet([e \in L |-> e.aus], E)
<1>1. IsFiniteSet(E)
  BY FS_Subset
<1>2. \A e \in E : [x \in E |-> x.aus][e] \in Nat /\ [x \in L |-> x.aus][e] = [x \in E |-> x.aus][e]
  OBVIOUS
<1>3. SumFunctionOnSet([x \in L |-> x.aus], E) = SumFunctionOnSet([x \in E |-> x.aus], E)
  BY <1>1, <1>2, SumOfSame
<1> QED
  BY <1>3 DEF SumOf, SumFunction

\* The AUs of the courses earned towards something are those of their entries, since no
\* course is earned twice.
LEMMA CoursesCountOnce ==
  ASSUME NEW E, IsFiniteSet(E),
         \A e \in E : e.aus \in Nat /\ e.aus = Catalogue[e.course].aus,
         \A d, e \in E : d # e => d.course # e.course
  PROVE  SumFunction([c \in {e.course : e \in E} |-> Catalogue[c].aus]) = SumOf(E)
<1> DEFINE C == {e.course : e \in E}
           name == [e \in E |-> e.course]
           aus == [e \in E |-> e.aus]
           worth == [c \in C |-> Catalogue[c].aus]
<1>1. name \in Bijection(E, C)
  BY DEF Bijection, Injection, Surjection, IsInjective
<1>2. \A e \in E : aus[e] \in Nat /\ worth[name[e]] = aus[e]
  OBVIOUS
<1>3. DOMAIN aus = E /\ DOMAIN worth = C
  OBVIOUS
<1> HIDE DEF C, name, aus, worth
<1>4. SumFunctionOnSet(worth, C) = SumFunctionOnSet(aus, E)
  BY <1>1, <1>2, SumRenamed
<1> QED
  BY <1>3, <1>4 DEF SumOf, SumFunction, C, aus, worth

\* Where no course is exempted twice, no exemption is left out for being a duplicate.
LEMMA SingleExemptionsCount ==
  ASSUME NEW cur, NEW scope, NEW student, StudentValid(student),
         CheckStudent(cur, scope, student), ExemptedTwice(student) = {}
  PROVE  NonDuplicated(student) = Exemptions(student)
<1> DEFINE Same(e) == {d \in Exemptions(student) : d.course = e.course}
           Most(e) == CHOOSE d \in Same(e) : \A x \in Same(e) : x.aus <= d.aus
<1>1. ASSUME NEW e \in Exemptions(student), e.course # "none"
      PROVE  e = Most(e)
  <2>1. e.aus \in Nat /\ e.course \in Courses
    BY <1>1 DEF Exemptions, StudentValid, EntryValid, CheckStudent
  <2>2. Same(e) = {e}
    BY <2>1 DEF ExemptedTwice
  <2>3. \A x \in {e} : x.aus <= e.aus
    BY <2>1
  <2> QED
    BY <2>2, <2>3
<1>2. NonDuplicated(student) = {e \in Exemptions(student) : e.course = "none" \/ e = Most(e)}
  BY DEF NonDuplicated
<1> QED
  BY <1>1, <1>2

\* Where no course is exempted twice, what the validator allocates to a requirement is
\* what the student has towards it, each course counted once.
LEMMA AllocatedIsCredit ==
  ASSUME NEW cur \in Curricula, NEW scope, NEW student, NEW audit,
         IsFiniteSet(student.ledger), StudentValid(student), CheckStudent(cur, scope, student),
         ExemptedTwice(student) = {},
         CheckAllocation(cur, student, audit),
         \A e \in student.ledger : e.kind = "earned" => e.category = "none",
         NEW r \in Requirements(cur)
  PROVE  /\ Allocated(cur, student, r) = CreditFor(cur, student, r)
         /\ Allocated(cur, student, r) \in Nat
<1> DEFINE L == student.ledger
           E == {e \in EarnedEntries(student) : r \in RequirementsOf(cur, e.course)}
           X == {e \in Exemptions(student) :
                   IF e.category # "none" THEN e.category = r
                   ELSE r \in RequirementsOf(cur, e.course)}
           courses == {c \in CoursesIn(EarnedEntries(student)) : r \in RequirementsOf(cur, c)}
           aus == [e \in L |-> e.aus]
<1>1. "none" \notin Requirements(cur)
  BY StudentRecordAssumption
<1>2. \A e \in L : EntryValid(e) /\ e.aus \in Nat
  BY DEF StudentValid, EntryValid
<1>3. EarnedEntries(student) \in SUBSET L /\ Exemptions(student) \in SUBSET L
  BY DEF EarnedEntries, Exemptions
<1>4. \A e \in Credits(student) : \A q : Allocations(cur, e) = {q} <=> q \in Allocations(cur, e)
  <2> TAKE e \in Credits(student)
  <2> TAKE q
  <2>1. Cardinality(Allocations(cur, e)) = 1 /\ IsFiniteSet(Allocations(cur, e))
    <3>1. Cardinality(Allocations(cur, e)) = 1
      BY DEF CheckAllocation
    <3>2. IsFiniteSet(Requirements(cur) \cup {e.category})
      BY StudentRecordAssumption, FS_AddElement
    <3>3. Allocations(cur, e) \subseteq Requirements(cur)
      BY StudentRecordAssumption DEF Allocations, RequirementsOf, CurriculumValid
    <3> QED
      BY <3>1, <3>2, <3>3, FS_Subset
  <2>2. PICK x : Allocations(cur, e) = {x}
    BY <2>1, FS_Singleton
  <2> QED
    BY <2>2
<1>5. \A e \in EarnedEntries(student) : Allocations(cur, e) = {r} <=> e \in E
  <2> TAKE e \in EarnedEntries(student)
  <2>1. e.category = "none" /\ e \in Credits(student)
    BY DEF EarnedEntries, Credits
  <2> QED
    BY <1>1, <1>4, <2>1 DEF Allocations
<1>6. \A e \in Exemptions(student) : Allocations(cur, e) = {r} <=> e \in X
  <2> TAKE e \in Exemptions(student)
  <2>1. e \in L /\ e.category \in Requirements(cur) \cup {"none"} /\ e \in Credits(student)
    BY <1>3 DEF Credits, CheckStudent
  <2>2. CASE e.category \in Requirements(cur)
    <3>1. Allocations(cur, e) \subseteq {e.category} /\ Allocations(cur, e) # {}
      <4>1. Allocations(cur, e) \subseteq {e.category}
        BY <2>2 DEF Allocations
      <4>2. Cardinality(Allocations(cur, e)) = 1
        BY <2>1 DEF CheckAllocation
      <4> QED
        BY <4>1, <4>2, FS_EmptySet
    <3> QED
      BY <1>1, <2>2, <3>1
  <2>3. CASE e.category = "none"
    BY <1>1, <1>4, <2>1, <2>3 DEF Allocations
  <2> QED
    BY <2>1, <2>2, <2>3
<1>7. {e \in Credits(student) : Allocations(cur, e) = {r}} = E \cup X
  BY <1>5, <1>6 DEF Credits
<1>8. /\ E \in SUBSET L /\ X \in SUBSET L /\ E \cup X \in SUBSET L /\ E \cap X = {}
  BY DEF EarnedEntries, Exemptions
<1>9. IsFiniteSet(E) /\ IsFiniteSet(X)
  BY <1>8, FS_Subset
<1>10. SumOf(E \cup X) = SumOf(E) + SumOf(X)
  <2>1. \A e \in L : aus[e] \in Nat
    BY <1>2
  <2>2. /\ SumOf(E) = SumFunctionOnSet(aus, E) /\ SumOf(X) = SumFunctionOnSet(aus, X)
        /\ SumOf(E \cup X) = SumFunctionOnSet(aus, E \cup X)
    BY <1>2, <1>8, SumWithinLedger
  <2> HIDE DEF E, X, aus
  <2>3. SumFunctionOnSet(aus, E \cup X) = SumFunctionOnSet(aus, E) + SumFunctionOnSet(aus, X)
    BY <1>8, <1>9, <2>1, SumOfTwo
  <2> QED
    BY <2>2, <2>3
<1>11. SumFunction([c \in courses |-> Catalogue[c].aus]) = SumOf(E)
  <2>1. courses = {e.course : e \in E}
    <3>1. \A e \in EarnedEntries(student) : e.course # "none"
      BY <1>2, <1>3 DEF EntryValid, EarnedEntries
    <3> QED
      BY <3>1 DEF CoursesIn
  <2>2. \A e \in E : e.aus \in Nat /\ e.aus = Catalogue[e.course].aus
    BY <1>2, <1>3 DEF CheckStudent, EarnedEntries
  <2>3. \A d, e \in E : d # e => d.course # e.course
    BY DEF StudentValid
  <2> HIDE DEF courses, E
  <2>4. SumFunction([c \in {e.course : e \in E} |-> Catalogue[c].aus]) = SumOf(E)
    BY <1>9, <2>2, <2>3, CoursesCountOnce
  <2> QED
    BY <2>1, <2>4
<1>12. CreditFor(cur, student, r) = SumFunction([c \in courses |-> Catalogue[c].aus]) + SumOf(X)
  <2>1. NonDuplicated(student) = Exemptions(student)
    BY SingleExemptionsCount
  <2> QED
    BY <2>1 DEF CreditFor
<1>13. Allocated(cur, student, r) = SumOf(E \cup X)
  BY <1>7 DEF Allocated
<1>14. SumOf(E \cup X) \in Nat
  <2>1. SumOf(E \cup X) = SumFunctionOnSet(aus, E \cup X)
    BY <1>2, <1>8, SumWithinLedger
  <2>2. IsFiniteSet(E \cup X) /\ \A e \in E \cup X : aus[e] \in Nat
    BY <1>2, <1>8, <1>9, FS_Union
  <2> HIDE DEF E, X, aus
  <2> QED
    BY <2>1, <2>2, SumIsNatural
<1> QED
  BY <1>10, <1>11, <1>12, <1>13, <1>14

-----------------------------------------------------------------------------
(* The specification *)

LEMMA LedgerInit == Init => LedgerInv
<1> SUFFICES ASSUME Init PROVE LedgerInv
  OBVIOUS
<1>1. PICK cur \in Curricula, family \in NeedsFeasible \cup {"S2", "OTHER"} :
        curriculum = cur /\ phase = "draft"
          /\ \E unclear, path, label, target, completed, tuple, support :
               rec = Build(cur, family, unclear, path, label, target, completed, tuple, support)
  BY DEF Init
<1>2. PICK unclear, path, label, target, completed, tuple, support :
        rec = Build(cur, family, unclear, path, label, target, completed, tuple, support)
  BY <1>1
<1> DEFINE ledger == BuiltLedger(cur, path, target, completed)
           chosen == {q \in Requirements(cur) : Exempted(cur, path, target, completed, q) > 0}
           file == [r \in chosen |-> Entry("exempt", 1, "none", r, Exempted(cur, path, target, completed, r))]
           filed == {Entry("exempt", 1, "none", r, Exempted(cur, path, target, completed, r)) : r \in chosen}
<1>3. "student" \in DOMAIN rec /\ "ledger" \in DOMAIN rec.student /\ rec.student.ledger = ledger
  BY <1>2 DEF Build, BuiltStudent
<1>4. IsFiniteSet(ledger)
  <2>1. IsFiniteSet(chosen)
    BY StudentRecordAssumption, FS_Subset
  <2>2. file \in Surjection(chosen, filed)
    BY DEF Surjection
  <2>3. IsFiniteSet(filed)
    <3> HIDE DEF chosen, file, filed
    <3> QED
      BY <2>1, <2>2, FS_Surjection
  <2>4. ledger = filed \cup {Taken(completed.course)}
    BY DEF BuiltLedger
  <2> HIDE DEF filed, ledger
  <2> QED
    BY <2>3, <2>4, FS_AddElement
<1>5. \A e \in ledger : {"kind", "category"} \subseteq DOMAIN e /\ (e.kind = "earned" => e.category = "none")
  BY DEF BuiltLedger, Taken, Entry
<1> HIDE DEF ledger
<1> QED
  BY <1>1, <1>3, <1>4, <1>5 DEF LedgerInv

LEMMA LedgerStep == LedgerInv /\ [Next]_vars => LedgerInv'
<1> SUFFICES ASSUME LedgerInv, [Next]_vars PROVE LedgerInv'
  OBVIOUS
<1> DEFINE Fits(e) == {"kind", "category"} \subseteq DOMAIN e /\ (e.kind = "earned" => e.category = "none")
<1>1. CASE Credit
  <2>1. PICK e \in NewEntries(curriculum) : rec' = Credited(curriculum, rec, e)
    BY <1>1 DEF Credit
  <2>2. /\ rec'.student.ledger = rec.student.ledger \cup {e}
        /\ "student" \in DOMAIN rec' /\ "ledger" \in DOMAIN rec'.student
    BY <2>1 DEF Credited, LedgerInv
  <2>3. Fits(e)
    BY DEF NewEntries, Entry
  <2>4. IsFiniteSet(rec'.student.ledger)
    BY <2>2, FS_AddElement DEF LedgerInv
  <2> QED
    BY <1>1, <2>2, <2>3, <2>4 DEF LedgerInv, Credit
<1>2. CASE Edit
  <2>1. CASE rec'.student = rec.student /\ "student" \in DOMAIN rec'
    BY <1>2, <2>1 DEF LedgerInv, Edit
  <2>2. ASSUME NEW s \in EditedStudents(curriculum, rec.student), rec' = [rec EXCEPT !.student = s]
        PROVE  LedgerInv'
    <3>1. rec'.student = s /\ "student" \in DOMAIN rec'
      BY <2>2 DEF LedgerInv
    <3>2. /\ "ledger" \in DOMAIN s /\ IsFiniteSet(s.ledger)
          /\ \A e \in s.ledger : Fits(e)
      <4>1. CASE s.ledger = rec.student.ledger /\ "ledger" \in DOMAIN s
        BY <4>1 DEF LedgerInv
      <4>2. ASSUME NEW e \in rec.student.ledger, NEW f, Fits(f),
                   s = [rec.student EXCEPT !.ledger = (@ \ {e}) \cup {f}]
            PROVE  /\ "ledger" \in DOMAIN s /\ IsFiniteSet(s.ledger)
                   /\ \A x \in s.ledger : Fits(x)
        <5>1. s.ledger = (rec.student.ledger \ {e}) \cup {f} /\ "ledger" \in DOMAIN s
          BY <4>2 DEF LedgerInv
        <5>2. IsFiniteSet(s.ledger)
          <6>1. IsFiniteSet(rec.student.ledger \ {e})
            BY FS_RemoveElement DEF LedgerInv
          <6> QED
            BY <5>1, <6>1, FS_AddElement
        <5> QED
          BY <4>2, <5>1, <5>2 DEF LedgerInv
      <4>3. \/ s.ledger = rec.student.ledger /\ "ledger" \in DOMAIN s
            \/ \E e \in rec.student.ledger : \E f :
                 Fits(f) /\ s = [rec.student EXCEPT !.ledger = (@ \ {e}) \cup {f}]
        <5>1. CASE s \in {[rec.student EXCEPT !.earned = @ + 1], [rec.student EXCEPT !.year = @ - 1]}
          BY <5>1 DEF LedgerInv
        <5>2. CASE \E p : s = [rec.student EXCEPT !.path = p] \/ s = [rec.student EXCEPT !.label = p]
          BY <5>2 DEF LedgerInv
        <5>3. ASSUME NEW e \in rec.student.ledger, NEW f,
                     \/ f = [e EXCEPT !.aus = @ + 1] \/ f = [e EXCEPT !.kind = "failed"]
                     \/ \E c : f = [e EXCEPT !.course = c]
                     \/ e.kind = "exempt" /\ \E q : f = [e EXCEPT !.category = q],
                     s = [rec.student EXCEPT !.ledger = (@ \ {e}) \cup {f}]
              PROVE  Fits(f)
          BY <5>3 DEF LedgerInv
        <5>4. \/ s \in {[rec.student EXCEPT !.earned = @ + 1], [rec.student EXCEPT !.year = @ - 1]}
              \/ \E p : s = [rec.student EXCEPT !.path = p] \/ s = [rec.student EXCEPT !.label = p]
              \/ \E e \in rec.student.ledger : \E f :
                   /\ \/ f = [e EXCEPT !.aus = @ + 1] \/ f = [e EXCEPT !.kind = "failed"]
                      \/ \E c : f = [e EXCEPT !.course = c]
                      \/ e.kind = "exempt" /\ \E q : f = [e EXCEPT !.category = q]
                   /\ s = [rec.student EXCEPT !.ledger = (@ \ {e}) \cup {f}]
          BY <2>2 DEF EditedStudents
        <5> QED
          BY <5>1, <5>2, <5>3, <5>4
      <4> QED
        BY <4>1, <4>2, <4>3
    <3> QED
      BY <1>2, <3>1, <3>2 DEF LedgerInv, Edit
  <2> QED
    BY <1>2, <2>1, <2>2 DEF Edit, Edited, LedgerInv
<1>3. CASE Validate
  BY <1>3 DEF Validate, LedgerInv
<1>4. CASE UNCHANGED vars
  BY <1>4 DEF vars, LedgerInv
<1> QED
  BY <1>1, <1>2, <1>3, <1>4 DEF Next

\* An audit that is accepted as READY (models/academic.py, data/simulated/validator.py) is
\* backed by credit that counts every course once, however its entries were edited, for
\* any curricula and any number of edits, unless it rests on a course exempted twice.
THEOREM ReadyAuditsAreEarned == Spec => []ReadyIsEarned
<1>1. LedgerInv => ReadyIsEarned
  <2> DEFINE student == rec.student
             audit == rec.audit
             R == Requirements(curriculum)
             Has(r) == CreditFor(curriculum, student, r)
  <2> SUFFICES ASSUME LedgerInv, phase = "accepted", audit.outcome = "READY",
                      ExemptedTwice(student) = {}
               PROVE  /\ SumFunction([r \in R |-> Has(r)]) >= GraduationTotal(curriculum, student.path)
                      /\ \A r \in R : Has(r) >= audit.results[r].required
    BY DEF ReadyIsEarned
  <2>1. /\ StudentValid(student) /\ AuditValid(audit)
        /\ \A q \in DOMAIN audit.results : ProgressValid(audit.results[q])
        /\ CheckStudent(curriculum, rec.scope, student)
        /\ CheckAudit(curriculum, rec.scope, student, audit)
    BY DEF LedgerInv, Constructible, Accepted
  <2>2. CheckAllocation(curriculum, student, audit) /\ DOMAIN audit.results = R
    BY <2>1 DEF CheckAudit
  <2>3. \A r \in R : Allocated(curriculum, student, r) = Has(r) /\ Has(r) \in Nat
    BY <2>1, <2>2, AllocatedIsCredit DEF LedgerInv
  <2>4. \A r \in R : Has(r) >= audit.results[r].required
    <3> TAKE r \in R
    <3>1. audit.results[r].status = "SATISFIED"
      BY <2>1, <2>2 DEF AuditValid
    <3>2. audit.results[r].earned = Has(r)
      BY <2>2, <2>3 DEF CheckAllocation
    <3>3. ProgressValid(audit.results[r])
      BY <2>1, <2>2
    <3> QED
      BY <2>3, <3>1, <3>2, <3>3 DEF ProgressValid
  <2>5. SumFunction([r \in R |-> Has(r)]) = student.earned
    <3>1. [r \in R |-> Has(r)] = [r \in R |-> Allocated(curriculum, student, r)]
      BY <2>3
    <3> QED
      BY <2>2, <3>1 DEF CheckAllocation
  <2>6. student.earned >= GraduationTotal(curriculum, student.path)
    <3>1. audit.required # -1 /\ audit.earned >= audit.required
      BY <2>1 DEF AuditValid
    <3>2. audit.path = student.path /\ audit.earned = student.earned
      BY <2>1 DEF CheckAudit
    <3>3. GraduationTotal(curriculum, student.path) # 0
            => audit.required = GraduationTotal(curriculum, student.path)
      BY <2>1, <3>1, <3>2 DEF CheckAudit
    <3>4. audit.earned \in Nat
      BY <2>1 DEF AuditValid
    <3> QED
      BY <3>1, <3>2, <3>3, <3>4
  <2> QED
    BY <2>4, <2>5, <2>6
<1>2. Spec => []LedgerInv
  BY LedgerInit, LedgerStep, PTL DEF Spec
<1> QED
  BY <1>1, <1>2, PTL

\* The equation the stage 3 notes give for earned_aus (unique completed courses and
\* exemptions that are not duplicated) can fail in an accepted record in no other way
\* than by a course exempted twice.
THEOREM CreditIsUniqueUnlessExemptedTwice ==
  Spec => [](phase = "accepted" /\ ExemptedTwice(rec.student) = {} =>
               rec.student.earned = UniqueCredit(rec.student))
<1> DEFINE Unique == phase = "accepted" /\ ExemptedTwice(rec.student) = {} =>
                       rec.student.earned = UniqueCredit(rec.student)
<1>1. LedgerInv => Unique
  <2> DEFINE student == rec.student
             L == student.ledger
             E == EarnedEntries(student)
             X == Exemptions(student)
             aus == [e \in L |-> e.aus]
  <2> SUFFICES ASSUME LedgerInv, phase = "accepted", ExemptedTwice(student) = {}
               PROVE  student.earned = UniqueCredit(student)
    OBVIOUS
  <2>1. StudentValid(student) /\ CheckStudent(curriculum, rec.scope, student)
    BY DEF LedgerInv, Constructible, Accepted
  <2>2. /\ IsFiniteSet(L) /\ \A e \in L : EntryValid(e) /\ e.aus \in Nat
        /\ E \in SUBSET L /\ X \in SUBSET L /\ E \cup X \in SUBSET L /\ E \cap X = {}
    BY <2>1 DEF LedgerInv, StudentValid, EntryValid, EarnedEntries, Exemptions
  <2>3. IsFiniteSet(E) /\ IsFiniteSet(X)
    BY <2>2, FS_Subset
  <2>4. NonDuplicated(student) = X
    BY <2>1, SingleExemptionsCount
  <2>5. SumFunction([c \in CoursesIn(E) |-> Catalogue[c].aus]) = SumOf(E)
    <3>1. CoursesIn(E) = {e.course : e \in E}
      <4>1. \A e \in E : e.course # "none"
        BY <2>2 DEF EntryValid, EarnedEntries
      <4> QED
        BY <4>1 DEF CoursesIn
    <3>2. \A e \in E : e.aus \in Nat /\ e.aus = Catalogue[e.course].aus
      BY <2>1, <2>2 DEF CheckStudent, EarnedEntries
    <3>3. \A d, e \in E : d # e => d.course # e.course
      BY <2>1 DEF StudentValid
    <3> HIDE DEF E
    <3>4. SumFunction([c \in {e.course : e \in E} |-> Catalogue[c].aus]) = SumOf(E)
      BY <2>3, <3>2, <3>3, CoursesCountOnce
    <3> QED
      BY <3>1, <3>4
  <2>6. SumOf(E \cup X) = SumOf(E) + SumOf(X)
    <3>1. /\ SumOf(E) = SumFunctionOnSet(aus, E) /\ SumOf(X) = SumFunctionOnSet(aus, X)
          /\ SumOf(E \cup X) = SumFunctionOnSet(aus, E \cup X)
      BY <2>2, SumWithinLedger
    <3>2. \A e \in L : aus[e] \in Nat
      BY <2>2
    <3> HIDE DEF E, X, aus, L
    <3>3. SumFunctionOnSet(aus, E \cup X) = SumFunctionOnSet(aus, E) + SumFunctionOnSet(aus, X)
      BY <2>2, <2>3, <3>2, SumOfTwo
    <3> QED
      BY <3>1, <3>3
  <2>7. student.earned = SumOf(E \cup X)
    BY <2>1 DEF StudentValid
  <2> QED
    BY <2>4, <2>5, <2>6, <2>7 DEF UniqueCredit
<1>2. Spec => []LedgerInv
  BY LedgerInit, LedgerStep, PTL DEF Spec
<1> QED
  BY <1>1, <1>2, PTL

-----------------------------------------------------------------------------
(* What the generator chooses *)

\* Curriculum, route, target and completed course as Init chooses them.
Suits(cur, family, path, label, target, completed) ==
  /\ cur \in Curricula /\ <<path, label>> \in Routes(cur)
  /\ \E i \in TargetCandidates(cur, family, label) : target = cur.plan[i]
  /\ \E i \in CompletedCandidates(cur, family, path, label, target) : completed = cur.plan[i]
  /\ Reconciles(cur, path, target)

\* Both courses can be registered and count for a requirement, which has room for them.
LEMMA ChoiceFits ==
  ASSUME NEW cur, NEW family, NEW path, NEW label, NEW target, NEW completed,
         Suits(cur, family, path, label, target, completed)
  PROVE  /\ target.course \in Courses /\ completed.course \in Courses
         /\ target.course # completed.course /\ target.course # "none" /\ completed.course # "none"
         /\ target.requirement \in Requirements(cur) /\ completed.requirement \in Requirements(cur)
         /\ Catalogue[target.course].aus \in Nat \ {0} /\ Catalogue[completed.course].aus \in Nat \ {0}
         /\ RequirementsOf(cur, completed.course) = {completed.requirement}
         /\ \A r \in Requirements(cur) :
              /\ Minimum(cur, path, r) \in Nat /\ Left(cur, path, target, r) \in Nat
              /\ Exempted(cur, path, target, completed, r) \in Nat
<1>1. CurriculumValid(cur) /\ cur \in Curricula
  BY StudentRecordAssumption DEF Suits
<1>2. PICK i \in TargetCandidates(cur, family, label) : target = cur.plan[i]
  BY DEF Suits
<1>3. PICK j \in CompletedCandidates(cur, family, path, label, target) : completed = cur.plan[j]
  BY DEF Suits
<1>4. i \in PlanCandidates(cur) /\ j \in PlanCandidates(cur)
  BY DEF TargetCandidates, Candidates, CompletedCandidates
<1>5. /\ i \in DOMAIN cur.plan /\ target.course \in Courses /\ target.requirement # "none"
      /\ Catalogue[target.course].aus > 0
  BY <1>2, <1>4 DEF PlanCandidates
<1>6. /\ j \in DOMAIN cur.plan /\ completed.course \in Courses /\ completed.requirement # "none"
      /\ Catalogue[completed.course].aus > 0
  BY <1>3, <1>4 DEF PlanCandidates
<1>7. /\ completed.course # target.course
      /\ Left(cur, path, target, completed.requirement) >= Catalogue[completed.course].aus
  BY <1>3 DEF CompletedCandidates
<1>8. target.requirement \in Requirements(cur) /\ completed.requirement \in Requirements(cur)
  BY <1>1, <1>2, <1>3, <1>5, <1>6 DEF CurriculumValid
<1>9. Catalogue[target.course].aus \in Nat \ {0} /\ Catalogue[completed.course].aus \in Nat \ {0}
  BY <1>5, <1>6, StudentRecordAssumption
<1>10. target.course # "none" /\ completed.course # "none"
  BY <1>5, <1>6, StudentRecordAssumption
<1>11. RequirementsOf(cur, completed.course) = {completed.requirement}
  <2> DEFINE Q == RequirementsOf(cur, completed.course)
  <2>1. completed.requirement \in Q
    BY <1>3, <1>6 DEF RequirementsOf
  <2>2. Q \subseteq Requirements(cur)
    BY <1>1 DEF RequirementsOf, CurriculumValid
  <2>3. IsFiniteSet(Q)
    BY <1>1, <2>2, StudentRecordAssumption, FS_Subset
  <2>4. Cardinality(Q) <= 1 /\ Cardinality(Q) \in Nat
    BY <1>1, <1>6, <2>3, StudentRecordAssumption, FS_CardinalityType
  <2>5. Cardinality(Q) # 0
    BY <2>1, <2>3, FS_EmptySet
  <2> HIDE DEF Q
  <2>6. Cardinality(Q) = 1
    BY <2>4, <2>5
  <2>7. PICK q : Q = {q}
    BY <2>3, <2>6, FS_Singleton
  <2> QED
    BY <2>1, <2>7 DEF Q
<1>12. ASSUME NEW r \in Requirements(cur)
       PROVE  /\ Minimum(cur, path, r) \in Nat /\ Left(cur, path, target, r) \in Nat
              /\ Exempted(cur, path, target, completed, r) \in Nat
  <2>1. Minimum(cur, path, r) \in Nat
    BY <1>1 DEF Minimum, CurriculumValid
  <2>2. Left(cur, path, target, r) \in Nat
    <3>1. Left(cur, path, target, target.requirement) >= 0
      BY DEF Suits, Reconciles
    <3>2. Left(cur, path, target, r) =
            Minimum(cur, path, r) - (IF r = target.requirement THEN Catalogue[target.course].aus ELSE 0)
      BY DEF Left
    <3> QED
      BY <1>9, <2>1, <3>1, <3>2
  <2>3. Exempted(cur, path, target, completed, r) \in Nat
    BY <1>7, <1>9, <2>2 DEF Exempted
  <2> QED
    BY <2>1, <2>2, <2>3
<1> QED
  BY <1>5, <1>6, <1>7, <1>8, <1>9, <1>10, <1>11, <1>12

\* Per requirement: what is asked, what is left beside the target, what is exempted.
Asked(cur, path) == [r \in Requirements(cur) |-> Minimum(cur, path, r)]
Rest(cur, path, target) == [r \in Requirements(cur) |-> Left(cur, path, target, r)]
Filed(cur, path, target, completed) ==
  [r \in Requirements(cur) |-> Exempted(cur, path, target, completed, r)]

\* What the requirements have adds up to what the student has earned, and what they ask
\* to the total.
LEMMA ChoiceAddsUp ==
  ASSUME NEW cur, NEW family, NEW path, NEW label, NEW target, NEW completed,
         Suits(cur, family, path, label, target, completed)
  PROVE  /\ TotalRequired(cur, path) \in Nat \ {0}
         /\ TotalRequired(cur, path) - Catalogue[target.course].aus \in Nat
         /\ GraduationTotal(cur, path) \in {0, TotalRequired(cur, path)}
         /\ SumFunction(Rest(cur, path, target))
              = TotalRequired(cur, path) - Catalogue[target.course].aus
         /\ SumFunction(Asked(cur, path)) = TotalRequired(cur, path)
         /\ SumFunction(Filed(cur, path, target, completed))
              = (TotalRequired(cur, path) - Catalogue[target.course].aus)
                  - Catalogue[completed.course].aus
<1> DEFINE R == Requirements(cur)
           total == TotalRequired(cur, path)
           wanted == Catalogue[target.course].aus
           taken == Catalogue[completed.course].aus
           left == [r \in R |-> Left(cur, path, target, r)]
           minimum == [r \in R |-> Minimum(cur, path, r)]
           exempted == [r \in R |-> Exempted(cur, path, target, completed, r)]
<1>1. /\ CurriculumValid(cur) /\ IsFiniteSet(R)
      /\ <<path, label>> \in Routes(cur)
  BY StudentRecordAssumption DEF Suits
<1>2. /\ target.requirement \in R /\ completed.requirement \in R
      /\ wanted \in Nat /\ taken \in Nat
      /\ \A r \in R : minimum[r] \in Nat /\ left[r] \in Nat /\ exempted[r] \in Nat
  BY ChoiceFits
<1>3. /\ path \in Paths(cur) \cup {"none"} /\ (path = "none" <=> Paths(cur) = {})
  BY <1>1 DEF Routes
<1>4. total \in Nat \ {0}
  BY <1>1, <1>3 DEF TotalRequired, CurriculumValid
<1>5. GraduationTotal(cur, path) \in {0, total}
  BY <1>3 DEF GraduationTotal, TotalRequired
<1>6. SumFunction(left) = total - wanted
  BY DEF Suits, Reconciles
<1>7. SumFunction(left) \in Nat
  <2>1. DOMAIN left = R
    OBVIOUS
  <2> HIDE DEF left
  <2> QED
    BY <1>1, <1>2, <2>1, SumIsNatural DEF SumFunction
<1>8. SumFunction(minimum) = SumFunction(left) + wanted
  <2>1. \A r \in R : left[r] \in Nat /\ minimum[r] = left[r] + (IF r = target.requirement THEN wanted ELSE 0)
    <3> SUFFICES ASSUME NEW r \in R
                 PROVE  minimum[r] = left[r] + (IF r = target.requirement THEN wanted ELSE 0)
      BY <1>2
    <3>1. left[r] = minimum[r] - (IF r = target.requirement THEN wanted ELSE 0)
      BY DEF Left
    <3> HIDE DEF minimum, left, wanted
    <3> QED
      BY <1>2, <3>1
  <2>2. DOMAIN left = R /\ DOMAIN minimum = R
    OBVIOUS
  <2> HIDE DEF minimum, left, wanted, R
  <2>3. \A q \in R : \A d \in Nat :
          (\A r \in R : left[r] \in Nat /\ minimum[r] = left[r] + (IF r = q THEN d ELSE 0))
            => SumFunctionOnSet(minimum, R) = SumFunctionOnSet(left, R) + d
    BY <1>1, SumRaised
  <2>4. SumFunctionOnSet(minimum, R) = SumFunctionOnSet(left, R) + wanted
    BY <1>2, <2>1, <2>3
  <2> QED
    BY <2>2, <2>4 DEF SumFunction
<1>9. SumFunction(left) = SumFunction(exempted) + taken
  <2>1. \A r \in R : exempted[r] \in Nat /\ left[r] = exempted[r] + (IF r = completed.requirement THEN taken ELSE 0)
    <3> SUFFICES ASSUME NEW r \in R
                 PROVE  left[r] = exempted[r] + (IF r = completed.requirement THEN taken ELSE 0)
      BY <1>2
    <3>1. exempted[r] = left[r] - (IF r = completed.requirement THEN taken ELSE 0)
      BY DEF Exempted
    <3> HIDE DEF exempted, left, taken
    <3> QED
      BY <1>2, <3>1
  <2>2. DOMAIN left = R /\ DOMAIN exempted = R
    OBVIOUS
  <2> HIDE DEF exempted, left, taken, R
  <2>3. \A q \in R : \A d \in Nat :
          (\A r \in R : exempted[r] \in Nat /\ left[r] = exempted[r] + (IF r = q THEN d ELSE 0))
            => SumFunctionOnSet(left, R) = SumFunctionOnSet(exempted, R) + d
    BY <1>1, SumRaised
  <2>4. SumFunctionOnSet(left, R) = SumFunctionOnSet(exempted, R) + taken
    BY <1>2, <2>1, <2>3
  <2> QED
    BY <2>2, <2>4 DEF SumFunction
<1>10. SumFunction(exempted) \in Nat
  <2>1. DOMAIN exempted = R
    OBVIOUS
  <2> HIDE DEF exempted
  <2> QED
    BY <1>1, <1>2, <2>1, SumIsNatural DEF SumFunction
<1> HIDE DEF left, minimum, exempted, total, wanted, taken
<1>11. /\ total - wanted \in Nat /\ SumFunction(minimum) = total
       /\ SumFunction(exempted) = (total - wanted) - taken
  BY <1>2, <1>4, <1>6, <1>7, <1>8, <1>9, <1>10
<1> QED
  BY <1>4, <1>5, <1>6, <1>11
     DEF left, minimum, exempted, total, wanted, taken, Rest, Asked, Filed

LEMMA SumOfFew ==
  /\ SumOf({}) = 0
  /\ \A d : d.aus \in Nat => SumOf({d}) = d.aus
  /\ \A d, e : d.aus \in Nat /\ e.aus \in Nat /\ d # e => SumOf({d, e}) = d.aus + e.aus
<1>1. SumOf({}) = 0
  <2>1. DOMAIN [e \in {} |-> e.aus] = {}
    OBVIOUS
  <2> QED
    BY <2>1, SumOfNone DEF SumOf, SumFunction
<1>2. \A d, e : d.aus \in Nat /\ e.aus \in Nat => SumOf({d, e}) = d.aus + SumOf({e} \ {d})
  <2> SUFFICES ASSUME NEW d, NEW e, d.aus \in Nat, e.aus \in Nat
               PROVE  SumOf({d, e}) = d.aus + SumOf({e} \ {d})
    OBVIOUS
  <2> DEFINE L == {d, e}
             aus == [x \in L |-> x.aus]
  <2>1. IsFiniteSet(L) /\ \A x \in L : x.aus \in Nat /\ aus[x] \in Nat
    <3>1. IsFiniteSet({d} \cup {e})
      BY FS_Singleton, FS_AddElement
    <3>2. L = {d} \cup {e}
      OBVIOUS
    <3>3. \A x \in L : x.aus \in Nat /\ aus[x] = x.aus
      OBVIOUS
    <3> QED
      BY <3>1, <3>2, <3>3
  <2>2. d \in L /\ L \in SUBSET L /\ L \ {d} \in SUBSET L /\ L \ {d} = {e} \ {d} /\ aus[d] = d.aus
    OBVIOUS
  <2> HIDE DEF L
  <2>3. SumOf(L) = SumFunctionOnSet(aus, L) /\ SumOf(L \ {d}) = SumFunctionOnSet(aus, L \ {d})
    BY <2>1, <2>2, SumWithinLedger
  <2> HIDE DEF aus
  <2>4. SumFunctionOnSet(aus, L) = aus[d] + SumFunctionOnSet(aus, L \ {d})
    BY <2>1, <2>2, SumWithOneMore
  <2> QED
    BY <2>2, <2>3, <2>4 DEF L
<1>3. \A d : d.aus \in Nat => SumOf({d}) = d.aus
  <2> TAKE d
  <2>1. {d, d} = {d} /\ {d} \ {d} = {}
    OBVIOUS
  <2>2. d.aus \in Nat => SumOf({d, d}) = d.aus + SumOf({d} \ {d})
    BY <1>2
  <2> QED
    BY <1>1, <2>1, <2>2
<1>4. ASSUME NEW d, NEW e, d.aus \in Nat, e.aus \in Nat, d # e
      PROVE  SumOf({d, e}) = d.aus + e.aus
  <2>1. {e} \ {d} = {e}
    BY <1>4
  <2>2. SumOf({d, e}) = d.aus + SumOf({e} \ {d})
    BY <1>2, <1>4
  <2>3. SumOf({e}) = e.aus
    BY <1>3, <1>4
  <2> QED
    BY <2>1, <2>2, <2>3
<1> QED
  BY <1>1, <1>3, <1>4

\* The entries of a ledger that count for r, and those filed under it.
CreditsFor(cur, ledger, r) == {e \in ledger : Allocations(cur, e) = {r}}
ExemptionsIn(ledger, r) == {e \in ledger : e.kind = "exempt" /\ e.category = r}

\* The built ledger adds up to what the student has earned, and each requirement gets
\* from it what is left of it.
LEMMA LedgerAddsUp ==
  ASSUME NEW cur, NEW family, NEW path, NEW label, NEW target, NEW completed,
         Suits(cur, family, path, label, target, completed)
  PROVE  /\ SumOf(BuiltLedger(cur, path, target, completed))
              = TotalRequired(cur, path) - Catalogue[target.course].aus
         /\ \A r \in Requirements(cur) :
              /\ SumOf(CreditsFor(cur, BuiltLedger(cur, path, target, completed), r))
                   = Left(cur, path, target, r)
              /\ SumOf(ExemptionsIn(BuiltLedger(cur, path, target, completed), r))
                   <= Left(cur, path, target, r)
         /\ \A e \in BuiltLedger(cur, path, target, completed) :
              \E r \in Requirements(cur) : Allocations(cur, e) = {r}
         /\ Allocations(cur, Taken(completed.course)) = {completed.requirement}
<1>0. /\ TotalRequired(cur, path) \in Nat
      /\ SumFunction(Filed(cur, path, target, completed))
           = (TotalRequired(cur, path) - Catalogue[target.course].aus)
               - Catalogue[completed.course].aus
  BY ChoiceAddsUp
<1> DEFINE R == Requirements(cur)
           ledger == BuiltLedger(cur, path, target, completed)
           has(r) == Exempted(cur, path, target, completed, r)
           filing(r) == Entry("exempt", 1, "none", r, has(r))
           chosen == {q \in R : has(q) > 0}
           filed == {filing(r) : r \in chosen}
           taken == Taken(completed.course)
           worth == Catalogue[completed.course].aus
           aus == [e \in ledger |-> e.aus]
           exempted == [r \in R |-> has(r)]
           filer == [r \in chosen |-> filing(r)]
<1>1. ledger = {taken} \cup filed
  BY DEF BuiltLedger
<1>2. /\ completed.requirement \in R /\ worth \in Nat /\ "none" \notin R /\ IsFiniteSet(R)
      /\ RequirementsOf(cur, completed.course) = {completed.requirement}
      /\ \A r \in R : has(r) \in Nat /\ Left(cur, path, target, r) \in Nat
  BY ChoiceFits, StudentRecordAssumption DEF Suits
<1>3. /\ taken.aus = worth /\ taken.kind = "earned" /\ taken.category = "none"
      /\ taken.course = completed.course
  BY DEF Taken, Entry
<1>4. \A r : /\ filing(r).aus = has(r) /\ filing(r).kind = "exempt" /\ filing(r).category = r
             /\ filing(r).course = "none"
  BY DEF Entry
<1>5. \A r \in R : Left(cur, path, target, r) = has(r) + (IF r = completed.requirement THEN worth ELSE 0)
  <2> TAKE r \in R
  <2>1. has(r) = Left(cur, path, target, r) - (IF r = completed.requirement THEN worth ELSE 0)
    BY DEF Exempted
  <2>2. Left(cur, path, target, r) \in Nat /\ worth \in Nat
    BY <1>2
  <2> HIDE DEF has, worth
  <2> QED
    BY <2>1, <2>2
<1>6. taken \notin filed
  BY <1>3, <1>4
<1>7. chosen \in SUBSET R /\ IsFiniteSet(chosen)
  BY <1>2, FS_Subset
<1>8. filer \in Bijection(chosen, filed)
  BY <1>4 DEF Bijection, Injection, Surjection, IsInjective
<1>9. IsFiniteSet(filed)
  <2> HIDE DEF filed, chosen, filer
  <2> QED
    BY <1>7, <1>8, FS_Bijection DEF ExistsBijection
<1>10. IsFiniteSet(ledger)
  <2>1. ledger = filed \cup {taken}
    BY <1>1
  <2> HIDE DEF ledger, filed, taken
  <2> QED
    BY <1>9, <2>1, FS_AddElement
<1>11. \A e \in ledger : e.aus \in Nat /\ aus[e] = e.aus
  <2>1. \A e \in ledger : e = taken \/ \E r \in R : e = filing(r)
    BY <1>1
  <2>2. \A e \in ledger : aus[e] = e.aus
    OBVIOUS
  <2> HIDE DEF ledger, taken, filing, worth, has, aus
  <2> QED
    BY <1>2, <1>3, <1>4, <2>1, <2>2
<1>12. SumOf(ledger) = worth + SumFunctionOnSet(aus, filed)
  <2>1. SumOf(ledger) = SumFunctionOnSet(aus, ledger)
    <3> HIDE DEF ledger
    <3> QED
      BY <1>10, <1>11, SumWithinLedger
  <2>2. taken \in ledger /\ ledger \ {taken} = filed /\ aus[taken] = worth
    BY <1>1, <1>3, <1>6
  <2> HIDE DEF ledger, filed, taken, aus
  <2>3. SumFunctionOnSet(aus, ledger) = aus[taken] + SumFunctionOnSet(aus, filed)
    BY <1>10, <1>11, <2>2, SumWithOneMore
  <2> QED
    BY <2>1, <2>2, <2>3
<1>13. SumFunctionOnSet(aus, filed) = SumFunctionOnSet(exempted, chosen)
  <2>1. \A r \in chosen : exempted[r] \in Nat /\ aus[filer[r]] = exempted[r]
    <3> TAKE r \in chosen
    <3>1. filing(r) \in ledger
      BY <1>1
    <3>2. aus[filing(r)] = has(r)
      BY <1>4, <3>1
    <3> QED
      BY <1>2, <3>2
  <2> HIDE DEF aus, filed, exempted, chosen, filer
  <2> QED
    BY <1>7, <1>8, <2>1, SumRenamed
<1>14. SumFunction(exempted) = SumFunctionOnSet(exempted, chosen)
  <2>1. /\ R = chosen \cup (R \ chosen) /\ chosen \cap (R \ chosen) = {} /\ DOMAIN exempted = R
        /\ R \ chosen \in SUBSET R
    OBVIOUS
  <2>2. \A r \in R : exempted[r] \in Nat /\ (r \notin chosen => exempted[r] = 0)
    <3> TAKE r \in R
    <3>1. exempted[r] = has(r) /\ (r \in chosen <=> has(r) > 0)
      OBVIOUS
    <3> HIDE DEF exempted, chosen, has
    <3> QED
      BY <1>2, <3>1
  <2>3. IsFiniteSet(R \ chosen)
    BY <1>2, FS_Subset
  <2> HIDE DEF exempted, chosen, R
  <2>4. SumFunctionOnSet(exempted, R \ chosen) = 0
    BY <2>2, <2>3, SumOfZeros
  <2>5. SumFunctionOnSet(exempted, chosen) \in Nat
    BY <1>7, <2>2, SumIsNatural
  <2>6. SumFunctionOnSet(exempted, chosen \cup (R \ chosen))
          = SumFunctionOnSet(exempted, chosen) + SumFunctionOnSet(exempted, R \ chosen)
    BY <1>7, <2>1, <2>2, <2>3, SumOfTwo
  <2> QED
    BY <2>1, <2>4, <2>5, <2>6 DEF SumFunction
<1>15. SumOf(ledger) = TotalRequired(cur, path) - Catalogue[target.course].aus
  <2>1. SumFunction(exempted) = (TotalRequired(cur, path) - Catalogue[target.course].aus) - worth
    BY <1>0 DEF Filed
  <2>2. Catalogue[target.course].aus \in Nat
    BY ChoiceFits
  <2> HIDE DEF ledger, worth, exempted, aus, filed, chosen
  <2> QED
    BY <1>0, <1>2, <1>12, <1>13, <1>14, <2>1, <2>2
<1>16. Allocations(cur, taken) = {completed.requirement}
  BY <1>2, <1>3 DEF Allocations
<1>17. \A r \in R : Allocations(cur, filing(r)) = {r}
  BY <1>4 DEF Allocations
<1>18. ASSUME NEW r \in R
       PROVE  /\ SumOf(CreditsFor(cur, ledger, r)) = Left(cur, path, target, r)
              /\ SumOf(ExemptionsIn(ledger, r)) <= Left(cur, path, target, r)
  <2> DEFINE mine == {e \in ledger : Allocations(cur, e) = {r}}
             exempt == {e \in ledger : e.kind = "exempt" /\ e.category = r}
  <2>1. exempt = IF has(r) > 0 THEN {filing(r)} ELSE {}
    BY <1>1, <1>3, <1>4
  <2>2. mine = exempt \cup (IF r = completed.requirement THEN {taken} ELSE {})
    <3>1. \A q \in R : Allocations(cur, filing(q)) = {r} <=> q = r
      BY <1>17
    <3>2. Allocations(cur, taken) = {r} <=> r = completed.requirement
      BY <1>16
    <3>3. \A q \in R : filing(q).kind = "exempt" /\ (filing(q).category = r <=> q = r)
      BY <1>4
    <3>4. \A e \in ledger : e = taken \/ \E q \in R : e = filing(q)
      BY <1>1
    <3>5. taken \in ledger
      BY <1>1
    <3>6. taken.kind # "exempt"
      BY <1>3
    <3> HIDE DEF ledger, taken, filing
    <3> QED
      BY <3>1, <3>2, <3>3, <3>4, <3>5, <3>6
  <2>3. /\ has(r) \in Nat /\ worth \in Nat /\ filing(r).aus = has(r) /\ taken.aus = worth
        /\ filing(r) # taken
        /\ Left(cur, path, target, r) = has(r) + (IF r = completed.requirement THEN worth ELSE 0)
    BY <1>2, <1>3, <1>4, <1>5
  <2> HIDE DEF mine, exempt, has, worth, filing, taken
  <2>4. SumOf(exempt) = has(r)
    BY <2>1, <2>3, SumOfFew
  <2>5. SumOf(mine) = Left(cur, path, target, r)
    <3>1. CASE r # completed.requirement
      <4>1. mine = exempt
        BY <2>2, <3>1
      <4> QED
        BY <2>3, <2>4, <3>1, <4>1
    <3>2. CASE r = completed.requirement /\ has(r) > 0
      <4>1. mine = {filing(r), taken}
        BY <2>1, <2>2, <3>2
      <4> QED
        BY <2>3, <3>2, <4>1, SumOfFew
    <3>3. CASE r = completed.requirement /\ ~(has(r) > 0)
      <4>1. mine = {taken} /\ has(r) = 0
        BY <2>1, <2>2, <2>3, <3>3
      <4> QED
        BY <2>3, <3>3, <4>1, SumOfFew
    <3> QED
      BY <3>1, <3>2, <3>3
  <2>6. SumOf(exempt) <= Left(cur, path, target, r)
    BY <2>3, <2>4
  <2> QED
    BY <2>5, <2>6 DEF mine, exempt, CreditsFor, ExemptionsIn
<1>19. \A e \in ledger : \E r \in R : Allocations(cur, e) = {r}
  <2>1. \A e \in ledger : e = taken \/ \E r \in R : e = filing(r)
    BY <1>1
  <2> HIDE DEF ledger, taken, filing
  <2> QED
    BY <1>2, <1>16, <1>17, <2>1
<1> QED
  BY <1>15, <1>16, <1>18, <1>19

-----------------------------------------------------------------------------
(* What is built of it is accepted *)

\* The ledger has one course taken and exemptions within categories.
LEMMA LedgerEntries ==
  ASSUME NEW cur, NEW family, NEW path, NEW label, NEW target, NEW completed,
         Suits(cur, family, path, label, target, completed),
         NEW student, student.ledger = BuiltLedger(cur, path, target, completed)
  PROVE  /\ EarnedEntries(student) = {Taken(completed.course)}
         /\ EarnedEntries(student) \cup Exemptions(student) = student.ledger
         /\ CoursesIn(EarnedEntries(student)) = {completed.course}
         /\ CoursesIn(Exemptions(student)) = {}
         /\ CreditedCourses(student) = {completed.course}
         /\ \A e \in student.ledger :
              /\ EntryValid(e) /\ e.category \in Requirements(cur) \cup {"none"}
              /\ \/ e = Taken(completed.course) /\ e.kind = "earned"
                 \/ e.kind = "exempt" /\ e.course = "none"
<1> DEFINE taken == Taken(completed.course)
           filing(r) == Entry("exempt", 1, "none", r, Exempted(cur, path, target, completed, r))
<1>1. /\ completed.course # "none" /\ Catalogue[completed.course].aus \in Nat
      /\ "none" \notin Requirements(cur)
      /\ \A r \in Requirements(cur) : Exempted(cur, path, target, completed, r) \in Nat
  BY ChoiceFits, StudentRecordAssumption DEF Suits
<1>2. /\ taken.aus = Catalogue[completed.course].aus /\ taken.kind = "earned"
      /\ taken.category = "none" /\ taken.course = completed.course
  BY DEF Taken, Entry
<1>3. \A r : /\ filing(r).aus = Exempted(cur, path, target, completed, r)
             /\ filing(r).kind = "exempt" /\ filing(r).category = r /\ filing(r).course = "none"
  BY DEF Entry
<1>4. taken \in student.ledger
  BY DEF BuiltLedger
<1>5. \A e \in student.ledger : e = taken \/ \E r \in Requirements(cur) : e = filing(r)
  BY DEF BuiltLedger
<1> HIDE DEF taken, filing
<1>6. \A e \in student.ledger :
        /\ e.aus \in Nat /\ e.category \in Requirements(cur) \cup {"none"}
        /\ \/ e = taken /\ e.kind = "earned" /\ e.course = completed.course
           \/ e.kind = "exempt" /\ e.course = "none" /\ e.category # "none"
  BY <1>1, <1>2, <1>3, <1>5
<1>7. EarnedEntries(student) = {taken}
  BY <1>2, <1>4, <1>6 DEF EarnedEntries
<1>8. /\ EarnedEntries(student) \cup Exemptions(student) = student.ledger
      /\ \A e \in Exemptions(student) : e.course = "none"
  BY <1>2, <1>6 DEF EarnedEntries, Exemptions
<1>9. CoursesIn(EarnedEntries(student)) = {completed.course}
  BY <1>1, <1>2, <1>7 DEF CoursesIn
<1>10. CoursesIn(Exemptions(student)) = {}
  BY <1>8 DEF CoursesIn
<1>11. CreditedCourses(student) = {completed.course}
  BY <1>9, <1>10 DEF CreditedCourses, CoursesIn
<1>12. \A e \in student.ledger : EntryValid(e)
  BY <1>1, <1>6 DEF EntryValid
<1> QED
  BY <1>6, <1>7, <1>8, <1>9, <1>10, <1>11, <1>12 DEF taken

LEMMA BuiltStudentAccepted ==
  ASSUME NEW cur, NEW family, NEW path, NEW label, NEW target, NEW completed,
         Suits(cur, family, path, label, target, completed)
  PROVE  /\ StudentValid(BuiltStudent(cur, path, label, target, completed))
         /\ CheckScope(cur, BuiltScope(cur))
         /\ CheckSelectedPaths(cur, BuiltScope(cur), path, label)
         /\ CheckStudent(cur, BuiltScope(cur), BuiltStudent(cur, path, label, target, completed))
<1> DEFINE student == BuiltStudent(cur, path, label, target, completed)
           scope == BuiltScope(cur)
<1>1. /\ student.ledger = BuiltLedger(cur, path, target, completed)
      /\ student.earned = TotalRequired(cur, path) - Catalogue[target.course].aus
      /\ student.path = path /\ student.label = label /\ student.year = cur.year
  BY DEF BuiltStudent
<1>2. scope.year = cur.year /\ scope.paths = Paths(cur) /\ scope.labels = Labels(cur)
  BY DEF BuiltScope
<1> HIDE DEF student, scope
<1>3. StudentValid(student)
  <2>1. SumOf(student.ledger) = student.earned
    BY <1>1, LedgerAddsUp
  <2>2. /\ \A e \in student.ledger : EntryValid(e)
        /\ EarnedEntries(student) = {Taken(completed.course)}
        /\ EarnedEntries(student) \cup Exemptions(student) = student.ledger
        /\ CoursesIn(Exemptions(student)) = {}
    BY <1>1, LedgerEntries
  <2>3. \A d, e \in EarnedEntries(student) : d = e
    BY <2>2
  <2>4. CoursesIn(EarnedEntries(student)) \cap CoursesIn(Exemptions(student)) = {}
    BY <2>2
  <2> QED
    BY <2>1, <2>2, <2>3, <2>4 DEF StudentValid
<1>4. CheckScope(cur, scope)
  BY <1>2 DEF CheckScope
<1>5. CheckSelectedPaths(cur, scope, path, label)
  <2>1. <<path, label>> \in Routes(cur)
    BY DEF Suits
  <2> QED
    BY <1>2, <2>1 DEF Routes, CheckSelectedPaths
<1>6. CheckStudent(cur, scope, student)
  <2>1. /\ completed.course \in Courses
        /\ Taken(completed.course).course = completed.course
        /\ Taken(completed.course).aus = Catalogue[completed.course].aus
    BY ChoiceFits DEF Taken, Entry
  <2>2. \A e \in student.ledger :
          /\ e.course \in Courses \cup {"none"} /\ e.category \in Requirements(cur) \cup {"none"}
          /\ e.kind = "earned" => e.aus = Catalogue[e.course].aus
    BY <1>1, <2>1, LedgerEntries
  <2> QED
    BY <1>1, <1>2, <1>5, <2>2 DEF CheckStudent
<1> QED
  BY <1>3, <1>4, <1>5, <1>6 DEF student, scope

\* The results are of the requirements; what the credits bring to them is what is left
\* beside the target.
LEMMA BuiltAllocationAccepted ==
  ASSUME NEW cur, NEW family, NEW path, NEW label, NEW target, NEW completed, NEW unclear,
         Suits(cur, family, path, label, target, completed)
  PROVE  CheckAllocation(cur, BuiltStudent(cur, path, label, target, completed),
                         BuiltAudit(cur, path, label, target, completed, unclear))
<1> DEFINE student == BuiltStudent(cur, path, label, target, completed)
           audit == BuiltAudit(cur, path, label, target, completed, unclear)
           R == Requirements(cur)
<1>1. /\ student.ledger = BuiltLedger(cur, path, target, completed)
      /\ student.earned = TotalRequired(cur, path) - Catalogue[target.course].aus
  BY DEF BuiltStudent
<1>2. /\ DOMAIN audit.results = R
      /\ \A r \in R : /\ audit.results[r].earned = Left(cur, path, target, r)
                      /\ audit.results[r].done = IF r = completed.requirement
                                                 THEN {completed.course} ELSE {}
  BY DEF BuiltAudit
<1> HIDE DEF student, audit, R
<1>3. /\ Credits(student) = student.ledger
      /\ \A e \in student.ledger : \/ e = Taken(completed.course) /\ e.kind = "earned"
                                   \/ e.kind = "exempt" /\ e.course = "none"
  BY <1>1, LedgerEntries DEF Credits
<1>4. \A e \in Credits(student) : Cardinality(Allocations(cur, e)) = 1
  <2>1. \A e \in Credits(student) : \E r \in R : Allocations(cur, e) = {r}
    BY <1>1, <1>3, LedgerAddsUp DEF R
  <2>2. \A r : Cardinality({r}) = 1
    BY FS_Singleton
  <2> QED
    BY <2>1, <2>2
<1>5. \A e \in {d \in Credits(student) : d.course # "none"} :
        {r \in DOMAIN audit.results : e.course \in audit.results[r].done} = Allocations(cur, e)
  <2>1. Taken(completed.course).course = completed.course
    BY DEF Taken, Entry
  <2>2. /\ Allocations(cur, Taken(completed.course)) = {completed.requirement}
        /\ completed.requirement \in R
    BY ChoiceFits, LedgerAddsUp DEF R
  <2>3. {r \in DOMAIN audit.results : completed.course \in audit.results[r].done}
          = {completed.requirement}
    BY <1>2, <2>2
  <2> QED
    BY <1>3, <2>1, <2>2, <2>3
<1>6. \A r \in R : /\ Allocated(cur, student, r) = Left(cur, path, target, r)
                   /\ SumOf({e \in Exemptions(student) : e.category = r})
                        <= Left(cur, path, target, r)
  <2> TAKE r \in R
  <2>1. /\ SumOf(CreditsFor(cur, student.ledger, r)) = Left(cur, path, target, r)
        /\ SumOf(ExemptionsIn(student.ledger, r)) <= Left(cur, path, target, r)
    BY <1>1, LedgerAddsUp DEF R
  <2>2. {e \in Exemptions(student) : e.category = r} = ExemptionsIn(student.ledger, r)
    BY DEF Exemptions, ExemptionsIn
  <2> QED
    BY <1>3, <2>1, <2>2 DEF Allocated, CreditsFor
<1>7. SumFunction([r \in R |-> Allocated(cur, student, r)]) = student.earned
  <2>1. [r \in R |-> Allocated(cur, student, r)] = Rest(cur, path, target)
    BY <1>6 DEF Rest, R
  <2> QED
    BY <1>1, <2>1, ChoiceAddsUp
<1>8. \A r \in R \cap DOMAIN audit.results :
        /\ audit.results[r].earned = Allocated(cur, student, r)
        /\ SumOf({e \in Exemptions(student) : e.category = r}) <= audit.results[r].earned
  BY <1>2, <1>6
<1> QED
  BY <1>4, <1>5, <1>7, <1>8 DEF CheckAllocation, student, audit, R

LEMMA BuiltAuditAccepted ==
  ASSUME NEW cur, NEW family, NEW path, NEW label, NEW target, NEW completed,
         NEW unclear \in BOOLEAN, Suits(cur, family, path, label, target, completed)
  PROVE  LET student == BuiltStudent(cur, path, label, target, completed)
             audit == BuiltAudit(cur, path, label, target, completed, unclear)
         IN
         /\ \A q \in DOMAIN audit.results : ProgressValid(audit.results[q])
         /\ AuditValid(audit)
         /\ CheckAudit(cur, BuiltScope(cur), student, audit)
<1> DEFINE student == BuiltStudent(cur, path, label, target, completed)
           audit == BuiltAudit(cur, path, label, target, completed, unclear)
           R == Requirements(cur)
           total == TotalRequired(cur, path)
           earned == total - Catalogue[target.course].aus
<1>1. /\ student.ledger = BuiltLedger(cur, path, target, completed) /\ student.earned = earned
      /\ student.path = path /\ student.label = label
  BY DEF BuiltStudent
<1>2. /\ DOMAIN audit.results = R /\ audit.path = path /\ audit.label = label
      /\ audit.earned = earned /\ audit.required = (IF unclear THEN -1 ELSE total)
      /\ audit.outcome = (IF unclear THEN "INDETERMINATE" ELSE "NOT_READY")
      /\ audit.limited = unclear
  BY DEF BuiltAudit
<1>3. \A r \in R :
        /\ audit.results[r].status =
             (IF unclear /\ r = target.requirement THEN "INDETERMINATE"
              ELSE IF r = target.requirement THEN "OUTSTANDING" ELSE "SATISFIED")
        /\ audit.results[r].required =
             (IF unclear /\ r = target.requirement THEN -1 ELSE Minimum(cur, path, r))
        /\ audit.results[r].earned = Left(cur, path, target, r)
        /\ audit.results[r].done = (IF r = completed.requirement THEN {completed.course} ELSE {})
        /\ audit.results[r].open = (IF r = target.requirement THEN {target.course} ELSE {})
        /\ audit.results[r].limited = (unclear /\ r = target.requirement)
  BY DEF BuiltAudit
<1>4. CheckAllocation(cur, student, audit)
  BY BuiltAllocationAccepted
<1> HIDE DEF student, audit, R, total, earned
<1>5. /\ target.course \in Courses /\ completed.course \in Courses
      /\ target.course # completed.course /\ target.requirement \in R
      /\ \A r \in R : Minimum(cur, path, r) \in Nat /\ Left(cur, path, target, r) \in Nat
  BY ChoiceFits DEF R
<1>6. \A r \in R : r # target.requirement => Left(cur, path, target, r) = Minimum(cur, path, r)
  <2> TAKE r \in R
  <2>1. Minimum(cur, path, r) \in Nat
    BY <1>5
  <2> QED
    BY <2>1 DEF Left
<1>7. /\ total \in Nat \ {0} /\ earned \in Nat /\ GraduationTotal(cur, path) \in {0, total}
      /\ SumFunction(Rest(cur, path, target)) = earned /\ SumFunction(Asked(cur, path)) = total
  BY ChoiceAddsUp DEF total, earned
<1>8. \A q \in R : ProgressValid(audit.results[q])
  <2> TAKE q \in R
  <2>1. audit.results[q].required \in Nat \cup {-1} /\ audit.results[q].earned \in Nat
    BY <1>3, <1>5
  <2>2. audit.results[q].done \cap audit.results[q].open = {}
    BY <1>3, <1>5
  <2>3. audit.results[q].required = -1 => audit.results[q].status = "INDETERMINATE"
    BY <1>3, <1>5
  <2>4. audit.results[q].status = "SATISFIED" => audit.results[q].earned >= audit.results[q].required
    BY <1>3, <1>5, <1>6
  <2>5. audit.results[q].status = "INDETERMINATE" => audit.results[q].limited
    BY <1>3
  <2> QED
    BY <2>1, <2>2, <2>3, <2>4, <2>5 DEF ProgressValid
<1>9. AuditValid(audit)
  <2>1. audit.required \in (Nat \ {0}) \cup {-1} /\ audit.earned \in Nat
    BY <1>2, <1>7
  <2>2. (\E r \in DOMAIN audit.results : audit.results[r].status = "INDETERMINATE") <=> unclear
    BY <1>2, <1>3, <1>5
  <2>3. ~unclear => \E r \in DOMAIN audit.results : audit.results[r].status # "SATISFIED"
    BY <1>2, <1>3, <1>5
  <2>4. unclear <=> audit.required = -1
    BY <1>2, <1>7
  <2>5. audit.outcome = "INDETERMINATE" => audit.limited
    BY <1>2
  <2> QED
    BY <1>2, <2>1, <2>2, <2>3, <2>4, <2>5 DEF AuditValid
<1>10. SumFunction([r \in DOMAIN audit.results |-> audit.results[r].earned]) = audit.earned
  <2>1. [r \in DOMAIN audit.results |-> audit.results[r].earned] = Rest(cur, path, target)
    BY <1>2, <1>3 DEF Rest, R
  <2> QED
    BY <1>2, <1>7, <2>1
<1>11. audit.required # -1 =>
         SumFunction([r \in DOMAIN audit.results |-> audit.results[r].required]) = audit.required
  <2> SUFFICES ASSUME audit.required # -1
               PROVE  SumFunction([r \in DOMAIN audit.results |-> audit.results[r].required])
                        = audit.required
    OBVIOUS
  <2>1. ~unclear /\ audit.required = total
    BY <1>2
  <2>2. \A r \in R : audit.results[r].required = Minimum(cur, path, r)
    BY <1>3, <2>1
  <2>3. [r \in DOMAIN audit.results |-> audit.results[r].required] = Asked(cur, path)
    BY <1>2, <2>2 DEF Asked, R
  <2> QED
    BY <1>7, <2>1, <2>3
<1>12. \A r \in DOMAIN audit.results :
         /\ audit.results[r].done \cup audit.results[r].open \subseteq Courses
         /\ audit.results[r].done \subseteq CreditedCourses(student)
         /\ audit.results[r].open \cap CreditedCourses(student) = {}
  <2>1. CreditedCourses(student) = {completed.course}
    BY <1>1, LedgerEntries
  <2> QED
    BY <1>2, <1>3, <1>5, <2>1
<1>13. LET expected == GraduationTotal(cur, audit.path)
       IN expected # 0 /\ audit.required # -1 => audit.required = expected
  BY <1>2, <1>7
<1>14. CheckSelectedPaths(cur, BuiltScope(cur), audit.path, audit.label)
  BY <1>2, BuiltStudentAccepted
<1>15. CheckAudit(cur, BuiltScope(cur), student, audit)
  <2>1. DOMAIN audit.results = Requirements(cur)
    BY <1>2 DEF R
  <2>2. audit.path = student.path /\ audit.label = student.label /\ audit.earned = student.earned
    BY <1>1, <1>2
  <2> QED
    BY <1>4, <1>10, <1>11, <1>12, <1>13, <1>14, <2>1, <2>2 DEF CheckAudit
<1>16. \A q \in DOMAIN audit.results : ProgressValid(audit.results[q])
  BY <1>2, <1>8
<1> QED
  BY <1>9, <1>15, <1>16 DEF student, audit

LEMMA BuiltStatesAccepted ==
  ASSUME NEW r, r.states = BuiltStates
  PROVE  /\ \A s \in DOMAIN r.states : StateValid(r.states[s])
         /\ CheckOfferingStates(r)
         /\ DOMAIN r.states = DOMAIN Classes
         /\ \A s \in DOMAIN Classes : r.states[s].class = s /\ StateUsable(r, s)
<1>1. /\ DOMAIN r.states = DOMAIN Classes
      /\ \A s \in DOMAIN Classes :
           /\ r.states[s].class = s /\ r.states[s].version = 1 /\ r.states[s].capacity = 2
           /\ r.states[s].seats = 1 /\ r.states[s].status = "OPEN"
           /\ r.states[s].available = TRUE /\ r.states[s].explained = FALSE
  BY DEF BuiltStates
<1>2. \A s \in DOMAIN r.states : StateValid(r.states[s])
  BY <1>1 DEF StateValid
<1>3. \A s \in DOMAIN Classes : StateUsable(r, s)
  BY <1>1 DEF StateUsable
<1>4. \A k \in DOMAIN Classes : Cardinality({s \in DOMAIN r.states : r.states[s].class = k}) = 1
  <2> TAKE k \in DOMAIN Classes
  <2>1. {s \in DOMAIN r.states : r.states[s].class = k} = {k}
    BY <1>1
  <2>2. Cardinality({k}) = 1
    BY FS_Singleton
  <2> QED
    BY <2>1, <2>2
<1>5. CheckOfferingStates(r)
  BY <1>1, <1>4 DEF CheckOfferingStates
<1> QED
  BY <1>1, <1>2, <1>3, <1>5

-----------------------------------------------------------------------------
(* The registration and the offer *)

\* The classes Init chooses, for a choice of courses that suits.
Offers(cur, family, target, completed, tuple, support) ==
  /\ tuple \in Tuples(cur, family, target, completed)
  /\ support \in IF family = "S1" THEN SupportChoices ELSE {{}}

\* The class the student has is of a course with AUs, so it is no support class.
LEMMA ClassesFit ==
  ASSUME NEW cur, cur \in Curricula, NEW family, NEW target, NEW completed, NEW tuple, NEW support,
         Offers(cur, family, target, completed, tuple, support)
  PROVE  /\ tuple.preferred \in ClassesOf(target.course)
         /\ tuple.alternative \in ClassesOf(target.course)
         /\ tuple.preferred # tuple.alternative
         /\ tuple.base \in DOMAIN Classes
         /\ Classes[tuple.base].course \in Courses
         /\ Catalogue[Classes[tuple.base].course].aus \in (Nat \ {0})
         /\ Catalogue[Classes[tuple.base].course].aus <= WorkloadLimit
         /\ family # "S1" => support = {}
         /\ \/ support = {}
            \/ \E k \in DOMAIN Classes : /\ support = {k} /\ k # tuple.base
                                         /\ Catalogue[Classes[k].course].aus = 0
<1> DEFINE bases == {cur.plan[i].course : i \in PlanCandidates(cur)} \ {target.course, completed.course}
<1>1. /\ tuple \in [preferred : ClassesOf(target.course), alternative : ClassesOf(target.course),
                    base : UNION {ClassesOf(c) : c \in bases}]
      /\ tuple.preferred # tuple.alternative
  BY DEF Offers, Tuples
<1>2. /\ tuple.preferred \in ClassesOf(target.course) /\ tuple.alternative \in ClassesOf(target.course)
      /\ tuple.base \in UNION {ClassesOf(c) : c \in bases}
  BY <1>1
<1>3. PICK c \in bases : tuple.base \in ClassesOf(c)
  BY <1>2
<1>4. tuple.base \in DOMAIN Classes /\ Classes[tuple.base].course = c
  BY <1>3 DEF ClassesOf
<1>5. c \in Courses /\ Catalogue[c].aus > 0
  BY <1>3 DEF PlanCandidates
<1>6. Catalogue[c].aus \in 0..WorkloadLimit /\ WorkloadLimit \in Nat
  BY <1>5, StudentRecordAssumption
<1>7. Catalogue[c].aus \in Nat \ {0} /\ Catalogue[c].aus <= WorkloadLimit
  BY <1>5, <1>6
<1>8. family # "S1" => support = {}
  BY DEF Offers
<1>9. support = {} \/ \E k \in DOMAIN Classes : support = {k} /\ Catalogue[Classes[k].course].aus = 0
  BY DEF Offers, SupportChoices
<1>10. \A k : Catalogue[Classes[k].course].aus = 0 => k # tuple.base
  BY <1>4, <1>7
<1> QED
  BY <1>1, <1>2, <1>4, <1>5, <1>7, <1>8, <1>9, <1>10

LEMMA BuiltRegistrationAccepted ==
  ASSUME NEW cur, cur \in Curricula, NEW family, NEW target, NEW completed, NEW tuple, NEW support,
         Offers(cur, family, target, completed, tuple, support),
         NEW g, g = BuiltRegistration(target, tuple.base, support)
  PROVE  /\ RegistrationValid(g)
         /\ CheckRegistration(g, BuiltStates)
         /\ g.workload = Catalogue[Classes[tuple.base].course].aus /\ g.limit = WorkloadLimit
         /\ \A i \in g.items : i.class = tuple.base \/ i.class \in support
         /\ \A i \in g.items : i.class \in support => i.aus = 0
         /\ \A m : m \in Timetabled(g) <=> \E i \in g.items : m \in Classes[i.class].meetings
         /\ \E i \in g.items : i.class = tuple.base
<1> DEFINE base == tuple.base
           items == {Item(1, base)} \cup {Item(2, k) : k \in support}
<1>1. /\ g.items = items /\ g.timetable = MeetingsOf(items) /\ g.workload = SumOf(items)
      /\ g.limit = WorkloadLimit
  BY DEF BuiltRegistration
<1>2. /\ base \in DOMAIN Classes
      /\ Catalogue[Classes[base].course].aus \in Nat
      /\ Catalogue[Classes[base].course].aus <= WorkloadLimit
      /\ \/ support = {}
         \/ \E k \in DOMAIN Classes : /\ support = {k} /\ k # base
                                      /\ Catalogue[Classes[k].course].aus = 0
  BY ClassesFit
<1>3. \A id, k : /\ Item(id, k).id = id /\ Item(id, k).class = k /\ Item(id, k).state = k
                 /\ Item(id, k).course = Classes[k].course /\ Item(id, k).version = 1
                 /\ Item(id, k).aus = Catalogue[Classes[k].course].aus
                 /\ Item(id, k).eligible = TRUE
  BY DEF Item
<1>4. \A i \in items : \/ i = Item(1, base)
                       \/ \E k \in support : i = Item(2, k) /\ k # base /\ support = {k}
                                             /\ k \in DOMAIN Classes /\ i.aus = 0
  BY <1>2, <1>3
<1>5. Item(1, base) \in items
  OBVIOUS
<1>6. SumOf(items) = Catalogue[Classes[base].course].aus
  <2>1. CASE support = {}
    <3>1. items = {Item(1, base)}
      BY <2>1
    <3> HIDE DEF items
    <3> QED
      BY <1>2, <1>3, <3>1, SumOfFew
  <2>2. CASE support # {}
    <3>1. PICK k \in support : support = {k} /\ Catalogue[Classes[k].course].aus = 0
      BY <1>2, <2>2
    <3>2. items = {Item(1, base), Item(2, k)}
      BY <3>1
    <3>3. Item(1, base).id # Item(2, k).id
      BY <1>3
    <3>4. Item(1, base) # Item(2, k)
      BY <3>3
    <3>5. Item(2, k).aus = 0 /\ Item(1, base).aus = Catalogue[Classes[base].course].aus
      BY <1>3, <3>1
    <3>6. SumOf({Item(1, base), Item(2, k)}) = Item(1, base).aus + Item(2, k).aus
      BY <1>2, <3>4, <3>5, SumOfFew
    <3> HIDE DEF items
    <3> QED
      BY <1>2, <3>2, <3>5, <3>6
  <2> QED
    BY <2>1, <2>2
<1> HIDE DEF items
<1>7. \A i \in items : /\ i.class \in DOMAIN Classes /\ i.state = i.class /\ i.version = 1
                       /\ i.course = Classes[i.class].course
                       /\ i.aus = Catalogue[i.course].aus /\ i.eligible = TRUE
                       /\ i.class = base \/ i.class \in support
                       /\ i.class \in support => i.aus = 0
  <2> TAKE i \in items
  <2>1. CASE i = Item(1, base)
    <3>1. base \in support => Catalogue[Classes[base].course].aus = 0
      BY <1>2
    <3> QED
      BY <1>2, <1>3, <2>1, <3>1
  <2>2. CASE \E k \in support : i = Item(2, k) /\ k \in DOMAIN Classes /\ i.aus = 0
    BY <1>3, <2>2
  <2> QED
    BY <1>4, <2>1, <2>2
<1>8. \A i, j \in items : i # j => i.id # j.id /\ i.class # j.class
  <2> SUFFICES ASSUME NEW i \in items, NEW j \in items, i # j
               PROVE  i.id # j.id /\ i.class # j.class
    OBVIOUS
  <2>1. CASE i = Item(1, base)
    <3>1. PICK k \in support : j = Item(2, k) /\ k # base
      BY <1>4, <2>1
    <3> QED
      BY <1>3, <2>1, <3>1
  <2>2. CASE i # Item(1, base)
    <3>1. PICK k \in support : i = Item(2, k) /\ k # base /\ support = {k}
      BY <1>4, <2>2
    <3>2. j = Item(1, base)
      BY <1>4, <3>1
    <3> QED
      BY <1>3, <3>1, <3>2
  <2> QED
    BY <2>1, <2>2
<1>9. \A m \in MeetingsOf(items) :
        \E i \in items : /\ m.item = i.id /\ m.course = i.course /\ m.class = i.class
                         /\ m.meeting \in Classes[i.class].meetings
  BY DEF MeetingsOf
<1>10. \A i \in items : \A m \in Classes[i.class].meetings :
         \E n \in MeetingsOf(items) : n.item = i.id /\ n.meeting = m
  <2> SUFFICES ASSUME NEW i \in items, NEW m \in Classes[i.class].meetings
               PROVE  \E n \in MeetingsOf(items) : n.item = i.id /\ n.meeting = m
    OBVIOUS
  <2> DEFINE n == [item |-> i.id, course |-> i.course, class |-> i.class, meeting |-> m]
  <2>1. n \in MeetingsOf(items)
    BY DEF MeetingsOf
  <2>2. n.item = i.id /\ n.meeting = m
    OBVIOUS
  <2> QED
    BY <2>1, <2>2
<1>11. RegistrationValid(g)
  <2>1. \A i, j \in items :
          i # j => i.id # j.id /\ <<i.course, i.class>> # <<j.course, j.class>>
    BY <1>8
  <2>2. \A m \in MeetingsOf(items) :
          \E i \in items : i.id = m.item /\ i.course = m.course /\ i.class = m.class
    BY <1>9
  <2> QED
    BY <1>1, <1>2, <1>6, <2>1, <2>2 DEF RegistrationValid
<1>12. CheckRegistration(g, BuiltStates)
  <2>1. \A k \in DOMAIN Classes : /\ k \in DOMAIN BuiltStates /\ BuiltStates[k].class = k
                                  /\ BuiltStates[k].version = 1
    BY DEF BuiltStates
  <2>2. \A i \in items : {m.meeting : m \in {n \in MeetingsOf(items) : n.item = i.id}}
                           = Classes[i.class].meetings
    <3> TAKE i \in items
    <3>1. \A n \in MeetingsOf(items) : n.item = i.id => n.meeting \in Classes[i.class].meetings
      BY <1>8, <1>9
    <3> QED
      BY <1>10, <3>1
  <2> QED
    BY <1>1, <1>7, <2>1, <2>2 DEF CheckRegistration
<1>13. \A m : m \in Timetabled(g) <=> \E i \in g.items : m \in Classes[i.class].meetings
  BY <1>1, <1>9, <1>10 DEF Timetabled
<1>14. \E i \in g.items : i.class = base
  BY <1>1, <1>3, <1>5
<1> QED
  BY <1>1, <1>6, <1>7, <1>11, <1>12, <1>13, <1>14

\* The class kept for support does not meet the alternative, which the generator does
\* not look for.
SupportMeetsAlone(r) ==
  \A i \in r.registration.items :
    i.aus = 0 => ~MeetingsConflict(Classes[r.offer.alternative].meetings, Classes[i.class].meetings)

LEMMA BuiltOfferAccepted ==
  ASSUME NEW cur, NEW family, NEW path, NEW label, NEW target, NEW completed, NEW tuple, NEW support,
         Suits(cur, family, path, label, target, completed),
         Offers(cur, family, target, completed, tuple, support),
         NEW r,
         r.student = BuiltStudent(cur, path, label, target, completed),
         r.registration = BuiltRegistration(target, tuple.base, support),
         r.states = BuiltStates,
         r.offer = [family |-> family, target |-> target.course,
                    preferred |-> tuple.preferred, alternative |-> tuple.alternative],
         SupportMeetsAlone(r)
  PROVE  CheckTarget(cur, r) /\ CheckOffer(r)
<1> DEFINE base == tuple.base
<1>1. /\ r.offer.family = family /\ r.offer.target = target.course
      /\ r.offer.preferred = tuple.preferred /\ r.offer.alternative = tuple.alternative
      /\ r.student.label = label /\ r.student.year = cur.year
      /\ r.student.ledger = BuiltLedger(cur, path, target, completed)
  BY DEF BuiltStudent
<1>2. /\ tuple.preferred \in ClassesOf(target.course) /\ tuple.alternative \in ClassesOf(target.course)
      /\ tuple.preferred # tuple.alternative /\ base \in DOMAIN Classes
      /\ Classes[base].course \in Courses
      /\ Catalogue[Classes[base].course].aus \in Nat
      /\ family # "S1" => support = {}
  BY ClassesFit DEF Suits
<1>3. /\ DOMAIN r.states = DOMAIN Classes
      /\ \A s \in DOMAIN Classes : r.states[s].class = s /\ StateUsable(r, s)
  BY BuiltStatesAccepted
<1>4. /\ r.registration.workload = Catalogue[Classes[base].course].aus
      /\ r.registration.limit = WorkloadLimit
      /\ \A i \in r.registration.items : i.class = base \/ i.class \in support
      /\ \A i \in r.registration.items : i.class \in support => i.aus = 0
      /\ \A m : m \in Timetabled(r.registration)
                  <=> \E i \in r.registration.items : m \in Classes[i.class].meetings
      /\ \E i \in r.registration.items : i.class = base
  BY BuiltRegistrationAccepted DEF Suits
<1>5. PICK i \in TargetCandidates(cur, family, label) : target = cur.plan[i]
  BY DEF Suits
<1>6. /\ i \in DOMAIN cur.plan /\ OnLabel(cur.plan[i], label)
      /\ family \in NeedsFeasible =>
           EvaluatePrerequisite(Catalogue[target.course].text, {}, cur.year) = "PASS"
  BY <1>5 DEF TargetCandidates, Candidates, PlanCandidates
<1>7. \A s \in {tuple.preferred, tuple.alternative} :
        s \in DOMAIN r.states /\ Classes[r.states[s].class].course = target.course /\ StateUsable(r, s)
  BY <1>2, <1>3 DEF ClassesOf
<1>8. CheckTarget(cur, r)
  BY <1>1, <1>5, <1>6, <1>7 DEF CheckTarget
<1>9. ASSUME family \in NeedsFeasible
      PROVE  CheckOffer(r)
  <2>1. /\ Catalogue[target.course].aus + Catalogue[Classes[base].course].aus <= WorkloadLimit
        /\ MeetingsConflict(Classes[tuple.preferred].meetings, Classes[base].meetings)
             <=> family \in {"S1", "S4"}
        /\ ~MeetingsConflict(Classes[tuple.alternative].meetings, Classes[base].meetings)
    BY <1>9 DEF Offers, Tuples
  <2>2. FitsWorkload(r, target.course)
    <3>1. Catalogue[target.course].aus \in Nat
      BY ChoiceFits
    <3> QED
      BY <1>2, <1>4, <2>1, <3>1 DEF FitsWorkload
  <2>3. PrerequisiteResult(r.student, target.course) = "PASS"
    <3>1. CreditedCourses(r.student) = {completed.course}
      BY <1>1, LedgerEntries
    <3>2. completed.course \in Courses /\ target.course \in Courses /\ cur \in Curricula
      <4>1. completed.course \in Courses /\ target.course \in Courses
        BY ChoiceFits
      <4>2. cur \in Curricula
        BY DEF Suits
      <4> QED
        BY <4>1, <4>2
    <3>3. {completed.course} \in SUBSET Courses /\ {} \in SUBSET {completed.course}
      BY <3>2
    <3>4. EvaluatePrerequisite(Catalogue[target.course].text, {completed.course}, cur.year) = "PASS"
      BY <1>6, <1>9, <3>2, <3>3, JudgementAssumption
    <3> QED
      BY <1>1, <3>1, <3>4 DEF PrerequisiteResult
  <2>4. StateConflicts(r, tuple.preferred) <=> family # "S7"
    <3>1. CASE family = "S7"
      <4>1. support = {}
        BY <1>2, <3>1
      <4>2. \A m \in Timetabled(r.registration) : m \in Classes[base].meetings
        BY <1>4, <4>1
      <4>3. ~MeetingsConflict(Classes[tuple.preferred].meetings, Classes[base].meetings)
        BY <2>1, <3>1
      <4> QED
        BY <1>7, <1>2, <1>3, <3>1, <4>2, <4>3 DEF StateConflicts, MeetingsConflict, ClassesOf
    <3>2. CASE family # "S7"
      <4>1. MeetingsConflict(Classes[tuple.preferred].meetings, Classes[base].meetings)
        BY <1>9, <2>1, <3>2 DEF NeedsFeasible
      <4>2. \A m \in Classes[base].meetings : m \in Timetabled(r.registration)
        BY <1>4
      <4> QED
        BY <1>2, <1>3, <3>2, <4>1, <4>2 DEF StateConflicts, MeetingsConflict, ClassesOf
    <3> QED
      BY <3>1, <3>2
  <2>5. ~StateConflicts(r, tuple.alternative)
    <3>1. \A j \in r.registration.items :
            ~MeetingsConflict(Classes[tuple.alternative].meetings, Classes[j.class].meetings)
      BY <1>1, <1>4, <2>1 DEF SupportMeetsAlone
    <3>2. \A m \in Timetabled(r.registration) : \E j \in r.registration.items :
            m \in Classes[j.class].meetings
      BY <1>4
    <3>3. r.states[tuple.alternative].class = tuple.alternative
      BY <1>2, <1>3 DEF ClassesOf
    <3> QED
      BY <3>1, <3>2, <3>3 DEF StateConflicts, MeetingsConflict
  <2> QED
    BY <1>1, <1>2, <1>7, <2>2, <2>3, <2>4, <2>5 DEF CheckOffer
<1>10. family \notin NeedsFeasible => CheckOffer(r)
  BY <1>1 DEF CheckOffer
<1> QED
  BY <1>8, <1>9, <1>10

LEMMA BuiltFilesAccepted ==
  ASSUME NEW files, files = BuiltFiles({}) \/ files = BuiltFiles({"mine", "theirs"})
  PROVE  CheckFiles(files)
<1> DEFINE owners == {"mine", "theirs"}
<1>1. /\ DOMAIN files.audit = owners /\ DOMAIN files.registration = owners
      /\ DOMAIN files.case = owners /\ DOMAIN files.script = owners
      /\ DOMAIN files.scenario = owners
      /\ DOMAIN files.approval = owners \/ DOMAIN files.approval = {}
  BY DEF BuiltFiles
<1>2. \A i \in owners :
        /\ files.audit[i] = i /\ files.registration[i] = i
        /\ files.case[i].student = i /\ files.case[i].audit = i /\ files.case[i].registration = i
        /\ files.script[i].case = i
        /\ files.script[i].approval = IF DOMAIN files.approval = {} THEN "none" ELSE i
        /\ files.scenario[i].student = i /\ files.scenario[i].audit = i
        /\ files.scenario[i].registration = i /\ files.scenario[i].case = i
        /\ files.scenario[i].script = i /\ files.scenario[i].exposed = Kinds \X {i}
  BY DEF BuiltFiles
<1>3. \A i \in DOMAIN files.approval : i \in owners /\ files.approval[i] = i
  BY DEF BuiltFiles
<1> HIDE DEF owners
<1>4. \A i \in owners : i # "none"
  BY DEF owners
<1>5. CheckOnePerStudent(files)
  <2>1. \A s \in owners, file \in {files.audit, files.registration} :
          {i \in DOMAIN file : file[i] = s} = {s}
    BY <1>1, <1>2
  <2> QED
    BY <2>1 DEF CheckOnePerStudent, ExactlyOne, owners
<1>6. CheckCases(files)
  BY <1>1, <1>2 DEF CheckCases, Resolves, owners
<1>7. CheckApprovalLinks(files)
  BY <1>1, <1>3 DEF CheckApprovalLinks, Resolves
<1>8. CheckScriptLinks(files)
  <2>1. \A i \in owners : files.script[i].approval # "none" =>
          /\ files.script[i].approval = i /\ i \in DOMAIN files.approval
    BY <1>1, <1>2
  <2> QED
    BY <1>1, <1>2, <1>3, <2>1 DEF CheckScriptLinks, Resolves
<1>9. CheckOneScriptPerCase(files)
  <2>1. \A c \in owners : {i \in DOMAIN files.script : files.script[i].case = c} = {c}
    BY <1>1, <1>2
  <2> QED
    BY <1>1, <2>1 DEF CheckOneScriptPerCase, ExactlyOne
<1>10. CheckScenarioLinks(files)
  <2> SUFFICES ASSUME NEW i \in owners
               PROVE  LET scenario == files.scenario[i] IN
                 /\ scenario.student \in owners
                 /\ \A kind \in {"audit", "registration", "case", "script"} :
                      Resolves(files[kind], scenario[kind])
                 /\ files.audit[scenario.audit] = scenario.student
                 /\ files.registration[scenario.registration] = scenario.student
                 /\ files.case[scenario.case].student = scenario.student
                 /\ files.script[scenario.script].case = scenario.case
                 /\ scenario.exposed = {<<kind, scenario[kind]>> : kind \in Kinds}
    BY <1>1 DEF CheckScenarioLinks, owners
  <2>1. \A kind \in {"audit", "registration", "case", "script"} :
          Resolves(files[kind], files.scenario[i][kind])
    BY <1>1, <1>2 DEF Resolves
  <2>2. \A kind \in Kinds : files.scenario[i][kind] = i
    BY <1>2 DEF Kinds
  <2>3. Kinds \X {i} = {<<kind, files.scenario[i][kind]>> : kind \in Kinds}
    BY <2>2
  <2> QED
    BY <1>2, <2>1, <2>3
<1>11. CheckOneScenarioPerCase(files)
  BY <1>1, <1>2 DEF CheckOneScenarioPerCase
<1> QED
  BY <1>5, <1>6, <1>7, <1>8, <1>9, <1>10, <1>11 DEF CheckFiles

\* Some plan item comes first.
LEMMA FirstOfSome ==
  ASSUME NEW n \in Nat, NEW S \in SUBSET (1..n), S # {}
  PROVE  Min(S) \in S
<1> DEFINE Initial == {1..i : i \in S}
<1>1. IsFiniteSet(1..n)
  BY FS_Interval
<1>2. Initial \in SUBSET SUBSET (1..n) /\ Initial # {}
  <2>1. \A i \in S : 1..i \in SUBSET (1..n)
    OBVIOUS
  <2>2. \A T \in Initial : T \in SUBSET (1..n)
    BY <2>1
  <2>3. PICK i \in S : TRUE
    OBVIOUS
  <2>4. 1..i \in Initial
    OBVIOUS
  <2> QED
    BY <2>2, <2>4
<1>3. PICK T \in Initial : \A U \in SUBSET T : U # T => U \notin Initial
  <2> HIDE DEF Initial
  <2> QED
    BY <1>1, <1>2, SmallestSet
<1>4. PICK i \in S : T = 1..i
  BY <1>3
<1>5. \A j \in S : i <= j
  <2> SUFFICES ASSUME NEW j \in S, j < i
               PROVE  FALSE
    OBVIOUS
  <2>1. 1..j \in SUBSET T /\ 1..j # T
    BY <1>4
  <2>2. 1..j \in Initial
    OBVIOUS
  <2> QED
    BY <1>3, <2>1, <2>2
<1> QED
  BY <1>5 DEF Min

\* What Init writes.
LEMMA BuiltRecordAccepted ==
  ASSUME NEW cur, NEW family, NEW unclear \in BOOLEAN, NEW path, NEW label, NEW target,
         NEW completed, NEW tuple, NEW support,
         Suits(cur, family, path, label, target, completed),
         Offers(cur, family, target, completed, tuple, support),
         NEW r,
         r = Build(cur, family, unclear, path, label, target, completed, tuple, support),
         SupportMeetsAlone(r)
  PROVE  Constructible(r) /\ Accepted(cur, r)
<1>1. /\ r.scope = BuiltScope(cur)
      /\ r.student = BuiltStudent(cur, path, label, target, completed)
      /\ r.audit = BuiltAudit(cur, path, label, target, completed, unclear)
      /\ r.registration = BuiltRegistration(target, tuple.base, support)
      /\ r.states = BuiltStates
      /\ r.offer = [family |-> family, target |-> target.course,
                    preferred |-> tuple.preferred, alternative |-> tuple.alternative]
      /\ r.files = BuiltFiles({}) \/ r.files = BuiltFiles({"mine", "theirs"})
  BY DEF Build
<1>2. /\ StudentValid(r.student) /\ CheckScope(cur, r.scope)
      /\ CheckStudent(cur, r.scope, r.student)
  BY <1>1, BuiltStudentAccepted
<1>3. /\ \A q \in DOMAIN r.audit.results : ProgressValid(r.audit.results[q])
      /\ AuditValid(r.audit) /\ CheckAudit(cur, r.scope, r.student, r.audit)
  BY <1>1, BuiltAuditAccepted
<1>4. /\ \A s \in DOMAIN r.states : StateValid(r.states[s])
      /\ CheckOfferingStates(r)
  BY <1>1, BuiltStatesAccepted
<1>5. RegistrationValid(r.registration) /\ CheckRegistration(r.registration, r.states)
  <2>1. cur \in Curricula
    BY DEF Suits
  <2> QED
    BY <1>1, <2>1, BuiltRegistrationAccepted
<1>6. CheckTarget(cur, r) /\ CheckOffer(r)
  BY <1>1, BuiltOfferAccepted
<1>7. CheckFiles(r.files)
  BY <1>1, BuiltFilesAccepted
<1> QED
  BY <1>2, <1>3, <1>4, <1>5, <1>6, <1>7 DEF Constructible, Accepted

\* A record nobody touched is accepted: the credit it was given adds up, and its
\* classes fit.
BuildInv ==
  /\ credits \in Nat /\ edits \in Nat
  /\ credits = 0 /\ edits = 0 /\ SupportMeetsAlone(rec) =>
       /\ Constructible(rec) /\ Accepted(curriculum, rec)
       /\ phase # "refused"

LEMMA BuildInit == Init => BuildInv
<1> SUFFICES ASSUME Init PROVE BuildInv
  OBVIOUS
<1>1. PICK cur \in Curricula, family \in NeedsFeasible \cup {"S2", "OTHER"} :
      \E support \in IF family = "S1" THEN SupportChoices ELSE {{}} :
      \E choice \in Routes(cur), unclear \in IF family = "OTHER" THEN BOOLEAN ELSE {FALSE} :
      \E i \in TargetCandidates(cur, family, choice[2]) :
        LET fitting == CompletedCandidates(cur, family, choice[1], choice[2], cur.plan[i])
            completed == cur.plan[Min(fitting)]
        IN
        /\ Reconciles(cur, choice[1], cur.plan[i]) /\ fitting # {}
        /\ curriculum = cur /\ credits = 0 /\ edits = 0 /\ phase = "draft"
        /\ \E tuple \in Tuples(cur, family, cur.plan[i], completed) :
             rec = Build(cur, family, unclear, choice[1], choice[2], cur.plan[i], completed,
                         tuple, support)
  BY DEF Init
<1>2. PICK support \in (IF family = "S1" THEN SupportChoices ELSE {{}}) :
      \E choice \in Routes(cur), unclear \in IF family = "OTHER" THEN BOOLEAN ELSE {FALSE} :
      \E i \in TargetCandidates(cur, family, choice[2]) :
        LET fitting == CompletedCandidates(cur, family, choice[1], choice[2], cur.plan[i])
            completed == cur.plan[Min(fitting)]
        IN
        /\ Reconciles(cur, choice[1], cur.plan[i]) /\ fitting # {}
        /\ curriculum = cur /\ credits = 0 /\ edits = 0 /\ phase = "draft"
        /\ \E tuple \in Tuples(cur, family, cur.plan[i], completed) :
             rec = Build(cur, family, unclear, choice[1], choice[2], cur.plan[i], completed,
                         tuple, support)
  BY <1>1
<1>3. PICK choice \in Routes(cur), unclear \in (IF family = "OTHER" THEN BOOLEAN ELSE {FALSE}) :
      \E i \in TargetCandidates(cur, family, choice[2]) :
        LET fitting == CompletedCandidates(cur, family, choice[1], choice[2], cur.plan[i])
            completed == cur.plan[Min(fitting)]
        IN
        /\ Reconciles(cur, choice[1], cur.plan[i]) /\ fitting # {}
        /\ curriculum = cur /\ credits = 0 /\ edits = 0 /\ phase = "draft"
        /\ \E tuple \in Tuples(cur, family, cur.plan[i], completed) :
             rec = Build(cur, family, unclear, choice[1], choice[2], cur.plan[i], completed,
                         tuple, support)
  BY <1>2
<1> DEFINE path == choice[1]
           label == choice[2]
<1>4. PICK i \in TargetCandidates(cur, family, label) :
        LET fitting == CompletedCandidates(cur, family, path, label, cur.plan[i])
            completed == cur.plan[Min(fitting)]
        IN
        /\ Reconciles(cur, path, cur.plan[i]) /\ fitting # {}
        /\ curriculum = cur /\ credits = 0 /\ edits = 0 /\ phase = "draft"
        /\ \E tuple \in Tuples(cur, family, cur.plan[i], completed) :
             rec = Build(cur, family, unclear, path, label, cur.plan[i], completed, tuple, support)
  BY <1>3
<1> DEFINE target == cur.plan[i]
           fitting == CompletedCandidates(cur, family, path, label, target)
           completed == cur.plan[Min(fitting)]
<1>5. PICK tuple \in Tuples(cur, family, target, completed) :
        rec = Build(cur, family, unclear, path, label, target, completed, tuple, support)
  BY <1>4
<1>6. /\ Reconciles(cur, path, target) /\ fitting # {}
      /\ curriculum = cur /\ credits = 0 /\ edits = 0 /\ phase = "draft"
  BY <1>4
<1>7. unclear \in BOOLEAN
  OBVIOUS
<1>8. <<path, label>> \in Routes(cur)
  <2>1. choice \in (Paths(cur) \cup {"none"}) \X (Labels(cur) \cup {"none"})
    BY DEF Routes
  <2>2. choice = <<choice[1], choice[2]>>
    BY <2>1
  <2> QED
    BY <2>2
<1>9. Min(fitting) \in fitting
  <2>1. CurriculumValid(cur)
    BY StudentRecordAssumption
  <2>2. cur.plan \in Seq(Range(cur.plan))
    BY <2>1 DEF CurriculumValid
  <2>3. Len(cur.plan) \in Nat /\ DOMAIN cur.plan = 1..Len(cur.plan)
    BY <2>2
  <2>4. fitting \in SUBSET DOMAIN cur.plan
    BY DEF CompletedCandidates, PlanCandidates
  <2> HIDE DEF fitting
  <2> QED
    BY <1>6, <2>3, <2>4, FirstOfSome
<1>10. Suits(cur, family, path, label, target, completed)
  BY <1>6, <1>8, <1>9 DEF Suits
<1>11. Offers(cur, family, target, completed, tuple, support)
  BY DEF Offers
<1> HIDE DEF path, label, target, completed
<1>12. SupportMeetsAlone(rec) => Constructible(rec) /\ Accepted(cur, rec)
  BY <1>5, <1>7, <1>10, <1>11, BuiltRecordAccepted
<1> QED
  BY <1>6, <1>12 DEF BuildInv

LEMMA BuildStep == BuildInv /\ [Next]_vars => BuildInv'
<1> SUFFICES ASSUME BuildInv, [Next]_vars PROVE BuildInv'
  OBVIOUS
<1>1. CASE Credit
  BY <1>1 DEF Credit, BuildInv
<1>2. CASE Edit
  BY <1>2 DEF Edit, BuildInv
<1>3. CASE Validate
  <2>1. /\ rec' = rec /\ curriculum' = curriculum /\ credits' = credits /\ edits' = edits
        /\ Constructible(rec) /\ Accepted(curriculum, rec) => phase' = "accepted"
    BY <1>3 DEF Validate
  <2> QED
    BY <2>1 DEF BuildInv
<1>4. CASE UNCHANGED vars
  BY <1>4 DEF vars, BuildInv
<1> QED
  BY <1>1, <1>2, <1>3, <1>4 DEF Next

\* What the generator (build_simulated_data.py) writes of any curriculum, with whatever
\* choices, is constructed and accepted (models/academic.py, data/simulated/validator.py),
\* if a support class it keeps does not meet the alternative it offers.
THEOREM GeneratedRecordsAreAccepted ==
  Spec => [](SupportMeetsAlone(rec) => BuiltRecordsAccepted)
<1>1. BuildInv => (SupportMeetsAlone(rec) => BuiltRecordsAccepted)
  BY DEF BuildInv, BuiltRecordsAccepted
<1>2. Spec => []BuildInv
  BY BuildInit, BuildStep, PTL DEF Spec
<1> QED
  BY <1>1, <1>2, PTL

=============================================================================
