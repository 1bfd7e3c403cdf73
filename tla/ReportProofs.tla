---------------------------- MODULE ReportProofs ----------------------------
(***************************************************************************)
(* Proofs about the review packages of MCCaseRuns, for every list of       *)
(* queries without a repetition, any number of rows, parts and runs into   *)
(* the folder.  The sides of MCCaseRuns share no variable, so a theorem    *)
(* about this one says nothing of the other two.                           *)
(***************************************************************************)
EXTENDS MCCaseRuns, AscendingProofs

-----------------------------------------------------------------------------
(* The run and its calls.                                                  *)

\* The run is at a query of its list, and inside the call for it.
Working == sheetStep \in {"next", "open", "rows", "roll"}
Calling == sheetStep \in {"open", "rows", "roll"}
Sheet(q) == <<q, 0>>

\* The list is gone through in order, and every query before this one has ended.
PlanInv == Working => /\ step \in 1..Len(R!Plan)
                      /\ \A i \in 1..Len(R!Plan) : i < step => R!Plan[i] \in DOMAIN queries

\* A handler is left behind at the end of the run only.  A call begins with its
\* variables reset; it writes to the unsplit file until it begins a second part,
\* and then there is no unsplit file.
CallInv ==
  /\ handler = "dead" => sheetStep = "finish"
  /\ sheetStep \notin {"rows", "roll"} => ~split /\ part = 1 /\ inPart = 0 /\ total = 0
  /\ sheetStep \in {"rows", "roll"} =>
       /\ part \in Nat \ {0}
       /\ split => Sheet(R!Current) \notin DOMAIN sheets
       /\ ~split => /\ Sheet(R!Current) \in DOMAIN sheets /\ inPart = total
                    /\ sheets[Sheet(R!Current)].run = sheetRun
                    /\ sheets[Sheet(R!Current)].rows = total

\* A result of this run that is in one file is whole, or can be told not to be.
Whole(q, f) == /\ sheets[f].run = sheetRun
               /\ sheets[f].rows = size \/ q \in notices \/ sheetCancel

\* An export that has ended was skipped for a reason, or what it left is whole.
ExportsInv ==
  Working =>
    \A n \in Name :
      LET q == <<"export", n>>
      IN q \in DOMAIN queries /\ ~(Calling /\ R!Current = q) =>
           /\ queries[q] # "reused"
           /\ queries[q] = "skipped" => sheetCancel \/ (platform = "macos" /\ n \in Ios)
           /\ queries[q] # "skipped" /\ Sheet(q) \in DOMAIN sheets => Whole(q, Sheet(q))

\* Once a sample was copied, no export is written any more, and the sample is not
\* queried as well.
SamplesInv ==
  \A n \in Name :
    LET q == <<"sample", n>>
    IN q \in DOMAIN queries /\ queries[q] = "reused" =>
         /\ Sheet(q) \in DOMAIN sheets
         /\ \/ Whole(<<"export", n>>, Sheet(q))
            \/ profile = "full" \/ sheetCancel
            \/ platform = "macos" /\ n \in Ios
         /\ Working => /\ n \in Reused /\ Sheet(<<"export", n>>) \in DOMAIN sheets
                       /\ <<"csv", Sheet(q)>> \notin locked
                       /\ R!Current[1] = "sample" /\ ~(Calling /\ R!Current = q)

ReportInv == PlanInv /\ CallInv /\ ExportsInv /\ SamplesInv /\ R!NoCallOnDeadFrame

-----------------------------------------------------------------------------
(* The list of queries.                                                    *)

\* Kept is the same operator here and in the module of the export.
LEMMA SameKept == \A items, S : R!Kept(items, S) = Kept(items, S)
<1>0. \A S : R!Cardinality(S) = Cardinality(S)
  BY DEF R!Cardinality, Cardinality
<1>1. \A S, n : R!Rank(S, n) = Rank(S, n)
  BY <1>0 DEF R!Rank, Rank
<1>2. \A S : R!Ascending(S) = Ascending(S)
  BY <1>0, <1>1 DEF R!Ascending, Ascending
<1> QED BY <1>2 DEF R!Kept, Kept

\* The exports of a run, and those among them that samples are copied from.
LEMMA Exports ==
  /\ R!Main \in Seq(Name)
  /\ profile # "full" =>
       \A n \in Reused \cap R!ToSet(Samples) : \E i \in 1..Len(R!Main) : R!Main[i] = n
<1>1. ThinSheets \in Seq(Name) /\ FullSheets \in Seq(Name)
  BY ReportAssumptions DEF R!NameAssumption
<1>2. CASE profile = "full"
  BY <1>1, <1>2 DEF R!Main
<1>3. CASE profile # "full"
  <2>1. R!Main = Kept(ThinSheets, R!Included)
    BY <1>3, SameKept DEF R!Main
  <2>2. PICK all : all = Kept(ThinSheets, R!Included)
    OBVIOUS
  <2>3. /\ Kept(ThinSheets, R!Included) \in Seq(Name \cap R!Included)
        /\ \A i \in 1..Len(ThinSheets) : ThinSheets[i] \in R!Included =>
             \E k \in 1..Len(Kept(ThinSheets, R!Included)) :
               Kept(ThinSheets, R!Included)[k] = ThinSheets[i]
    <3>1. PICK items \in Seq(Name), S \in {R!Included} : items = ThinSheets /\ S = R!Included
      BY <1>1
    <3>2. Kept(items, S) \in Seq(Name \cap S)
      BY KeptPlaces
    <3>3. ASSUME NEW i \in 1..Len(items), items[i] \in S
          PROVE  \E k \in 1..Len(Kept(items, S)) : Kept(items, S)[k] = items[i]
      BY <3>3, KeptFinds
    <3> QED BY <3>1, <3>2, <3>3, Zenon
  <2>4. /\ all \in Seq(Name \cap R!Included)
        /\ \A i \in 1..Len(ThinSheets) : ThinSheets[i] \in R!Included =>
             \E k \in 1..Len(all) : all[k] = ThinSheets[i]
    BY <2>2, <2>3, Zenon
  <2>5. ASSUME NEW n \in Reused \cap R!ToSet(Samples) PROVE \E k \in 1..Len(all) : all[k] = n
    <3>1. n \in R!ToSet(ThinSheets) /\ n \notin SupportOnly
      BY <2>5, ReportAssumptions DEF R!ReusedAssumption
    <3>2. n \in R!Included
      BY <3>1 DEF R!Included
    <3>3. PICK i \in 1..Len(ThinSheets) : ThinSheets[i] = n
      BY <1>1, <3>1 DEF R!ToSet
    <3> QED BY <2>4, <3>2, <3>3
  <2> QED BY <2>1, <2>2, <2>4, <2>5
<1> QED BY <1>2, <1>3

\* The exports come first and the samples behind them.
LEMMA PlanParts ==
  /\ Len(R!Main) \in Nat /\ Len(Samples) \in Nat \ {0} /\ Samples \in Seq(Name)
  /\ Len(R!Plan) = Len(R!Main) + Len(Samples) /\ DOMAIN R!Plan = 1..Len(R!Plan)
  /\ \A i \in 1..Len(R!Plan) :
       \/ i \in 1..Len(R!Main) /\ R!Plan[i] = <<"export", R!Main[i]>>
       \/ /\ i > Len(R!Main) /\ i - Len(R!Main) \in 1..Len(Samples)
          /\ R!Plan[i] = <<"sample", Samples[i - Len(R!Main)]>>
  /\ \A i \in 1..Len(R!Main) : i \in 1..Len(R!Plan) /\ R!Plan[i] = <<"export", R!Main[i]>>
<1>1. PICK first \in Seq(Name), second \in Seq(Name) :
        first = R!Main /\ second = Samples /\ second # <<>>
  BY Exports, ReportAssumptions DEF R!NameAssumption
<1>2. PICK m \in Nat, k \in Nat \ {0} : /\ m = Len(first) /\ k = Len(second)
                                       /\ DOMAIN first = 1..m /\ DOMAIN second = 1..k
  BY <1>1
<1>3. PICK exportsList : exportsList = [i \in 1..m |-> <<"export", first[i]>>]
  OBVIOUS
<1>4. PICK samplesList : samplesList = [i \in 1..k |-> <<"sample", second[i]>>]
  OBVIOUS
<1>5. /\ exportsList \in Seq({"export", "sample"} \X Name) /\ Len(exportsList) = m
      /\ samplesList \in Seq({"export", "sample"} \X Name) /\ Len(samplesList) = k
  BY <1>1, <1>2, <1>3, <1>4
<1>6. PICK whole2 : whole2 = exportsList \o samplesList
  OBVIOUS
<1>7. /\ Len(whole2) = m + k /\ DOMAIN whole2 = 1..(m + k)
      /\ \A i \in 1..(m + k) : whole2[i] = IF i <= m THEN exportsList[i] ELSE samplesList[i - m]
  <2>1. PICK X : X = {"export", "sample"} \X Name
    OBVIOUS
  <2>2. PICK one \in Seq(X), two \in Seq(X) : one = exportsList /\ two = samplesList
    BY <1>5, <2>1
  <2>3. Len(one) = m /\ Len(two) = k /\ whole2 = one \o two
    BY <1>5, <1>6, <2>2, Zenon
  <2>4. /\ Len(one \o two) = Len(one) + Len(two)
        /\ DOMAIN (one \o two) = 1..(Len(one) + Len(two))
        /\ \A i \in 1..(Len(one) + Len(two)) :
             (one \o two)[i] = IF i <= Len(one) THEN one[i] ELSE two[i - Len(one)]
    OBVIOUS
  <2> QED BY <2>2, <2>3, <2>4, Zenon
<1>8. R!Plan = whole2
  BY <1>1, <1>2, <1>3, <1>4, <1>6 DEF R!Plan
<1>9. ASSUME NEW i \in 1..(m + k)
      PROVE  \/ i \in 1..m /\ whole2[i] = <<"export", first[i]>>
             \/ i > m /\ i - m \in 1..k /\ whole2[i] = <<"sample", second[i - m]>>
  BY <1>2, <1>3, <1>4, <1>7
<1>10. ASSUME NEW i \in 1..m PROVE i \in 1..(m + k) /\ whole2[i] = <<"export", first[i]>>
  BY <1>2, <1>3, <1>7
<1> QED BY <1>1, <1>2, <1>7, <1>8, <1>9, <1>10, Zenon

\* Those that are copied from an export come behind it.
PlanInOrder ==
  /\ Len(R!Plan) \in Nat \ {0}
  /\ \A i \in 1..Len(R!Plan) : R!Plan[i] \in {"export", "sample"} \X Name
  /\ \A i, j \in 1..Len(R!Plan) : i < j /\ R!Plan[i][1] = "sample" => R!Plan[j][1] = "sample"
  /\ profile # "full" =>
       \A j \in 1..Len(R!Plan) :
         R!Plan[j][1] = "sample" /\ R!Plan[j][2] \in Reused =>
           \E i \in 1..Len(R!Plan) : i < j /\ R!Plan[i] = <<"export", R!Plan[j][2]>>

\* The list of every run is in that order.
LEMMA PlanFacts == PlanInOrder
<1>1. PICK m \in Nat, k \in Nat \ {0}, n \in Nat :
        m = Len(R!Main) /\ k = Len(Samples) /\ n = Len(R!Plan)
  BY PlanParts
<1>2. PICK plan, first, second : plan = R!Plan /\ first = R!Main /\ second = Samples
  OBVIOUS
<1>3. /\ first \in Seq(Name) /\ second \in Seq(Name) /\ n = m + k
      /\ Len(first) = m /\ Len(second) = k
  BY <1>1, <1>2, PlanParts, Exports
<1>4. ASSUME NEW i \in 1..n
      PROVE  \/ i \in 1..m /\ plan[i] = <<"export", first[i]>>
             \/ i > m /\ i - m \in 1..k /\ plan[i] = <<"sample", second[i - m]>>
  BY <1>1, <1>2, PlanParts
<1>5. ASSUME NEW i \in 1..n PROVE plan[i] \in {"export", "sample"} \X Name
  <2>1. CASE i \in 1..m /\ plan[i] = <<"export", first[i]>>
    <3>1. first[i] \in Name
      BY <1>3, <2>1
    <3> QED BY <2>1, <3>1
  <2>2. CASE i - m \in 1..k /\ plan[i] = <<"sample", second[i - m]>>
    <3>1. second[i - m] \in Name
      BY <1>3, <2>2
    <3> QED BY <2>2, <3>1
  <2> QED BY <1>4, <2>1, <2>2
<1>6. ASSUME NEW i \in 1..n, NEW j \in 1..n, i < j, plan[i][1] = "sample"
      PROVE  plan[j][1] = "sample"
  <2>1. i > m
    BY <1>4, <1>6
  <2>2. ~(j \in 1..m)
    BY <1>3, <1>6, <2>1
  <2> QED BY <1>4, <2>2
<1>7. ASSUME profile # "full", NEW j \in 1..n, plan[j][1] = "sample", plan[j][2] \in Reused
      PROVE  \E i \in 1..n : i < j /\ plan[i] = <<"export", plan[j][2]>>
  <2>1. j > m /\ j - m \in 1..k /\ plan[j][2] = second[j - m]
    BY <1>4, <1>7
  <2>2. plan[j][2] \in R!ToSet(Samples)
    BY <1>2, <1>3, <2>1 DEF R!ToSet
  <2>3. PICK i \in 1..m : first[i] = plan[j][2]
    BY <1>1, <1>2, <1>7, <2>2, Exports
  <2>4. i \in 1..n /\ i <= m /\ i < j
    BY <1>3, <2>1
  <2>5. plan[i] = <<"export", first[i]>>
    BY <1>1, <1>2, <2>3, PlanParts
  <2> QED BY <2>3, <2>4, <2>5
<1>8. n \in Nat \ {0}
  BY <1>3
<1> QED BY <1>1, <1>2, <1>5, <1>6, <1>7, <1>8, Zenon DEF PlanInOrder

\* So is the list of the next state, whose profile may be another.
LEMMA PlanFactsNext == PlanInOrder'
BY PlanFacts, PTL

-----------------------------------------------------------------------------
(* The invariant.                                                          *)

\* There is nothing to be claimed before the first run.
LEMMA ReportInit == R!Init => ReportInv
<1> SUFFICES ASSUME R!Init PROVE ReportInv
  OBVIOUS
<1>1. ~Working /\ sheetStep = "idle" /\ queries = <<>> /\ handler = "none"
  BY DEF R!Init, Working
<1>2. DOMAIN queries = {}
  BY <1>1
<1>3. CallInv
  BY <1>1 DEF R!Init, CallInv
<1> QED BY <1>1, <1>2, <1>3 DEF ReportInv, PlanInv, ExportsInv, SamplesInv, R!NoCallOnDeadFrame

\* Nothing is known of queries when a run begins or the process dies.
LEMMA Forgotten ==
  ASSUME queries' = <<>>, Working' => step' = 1, CallInv', R!NoCallOnDeadFrame'
  PROVE  ReportInv'
<1>1. DOMAIN queries' = {}
  OBVIOUS
<1>2. PlanInv'
  BY PlanFactsNext DEF PlanInOrder, PlanInv
<1> QED BY <1>1, <1>2 DEF ReportInv, ExportsInv, SamplesInv

\* Nothing but the sheets of this call changes.
Keeps == \A t \in {"export", "sample"}, n \in Name :
           <<t, n>> # R!Current =>
             /\ Sheet(<<t, n>>) \in DOMAIN sheets' <=> Sheet(<<t, n>>) \in DOMAIN sheets
             /\ Sheet(<<t, n>>) \in DOMAIN sheets =>
                  sheets'[Sheet(<<t, n>>)] = sheets[Sheet(<<t, n>>)]

\* The run comes to its end, early or not.
LEMMA Left ==
  ASSUME ReportInv, ~Working', UNCHANGED R!setting, UNCHANGED <<sheetCancel, queries, notices>>,
         R!Reset \/ (sheetStep = "finish" /\ UNCHANGED R!call),
         UNCHANGED sheets \/ (Calling /\ Keeps),
         R!NoCallOnDeadFrame', handler' = "dead" => sheetStep' = "finish"
  PROVE  ReportInv'
<1>1. PlanInv' /\ ExportsInv'
  BY DEF PlanInv, ExportsInv
<1>2. CallInv'
  BY DEF CallInv, ReportInv, R!Reset, R!call, Working
<1>3. SamplesInv'
  <2> SUFFICES ASSUME NEW n \in Name, <<"sample", n>> \in DOMAIN queries',
                      queries'[<<"sample", n>>] = "reused"
               PROVE  /\ Sheet(<<"sample", n>>) \in DOMAIN sheets'
                      /\ \/ Whole(<<"export", n>>, Sheet(<<"sample", n>>))'
                         \/ (profile = "full" \/ sheetCancel)'
                         \/ (platform = "macos")' /\ n \in Ios
    BY DEF SamplesInv
  <2>1. /\ Sheet(<<"sample", n>>) \in DOMAIN sheets
        /\ \/ Whole(<<"export", n>>, Sheet(<<"sample", n>>))
           \/ profile = "full" \/ sheetCancel
           \/ platform = "macos" /\ n \in Ios
        /\ Working => ~(Calling /\ R!Current = <<"sample", n>>)
    BY DEF ReportInv, SamplesInv
  <2>2. /\ Sheet(<<"sample", n>>) \in DOMAIN sheets'
        /\ sheets'[Sheet(<<"sample", n>>)] = sheets[Sheet(<<"sample", n>>)]
    BY <2>1 DEF Keeps, Working, Calling
  <2> QED BY <2>1, <2>2 DEF Whole, R!setting
<1> QED BY <1>1, <1>2, <1>3 DEF ReportInv

\* The list changes with the run only.
LEMMA SamePlan == UNCHANGED <<R!setting, step>> => R!Plan' = R!Plan /\ R!Current' = R!Current
BY DEF R!setting, R!Plan, R!Main, R!Included, R!Supporting, R!Current

\* The call goes on: it writes to no sheet but its own.
LEMMA Within ==
  ASSUME ReportInv, Working, Calling', Keeps,
         UNCHANGED <<R!setting, sheetCancel, step, queries, notices>>, handler' # "dead",
         sheetStep = "next" => ~R!Copyable,
         CallInv'
  PROVE  ReportInv'
<1>1. R!Plan' = R!Plan /\ R!Current' = R!Current
  BY SamePlan
<1>2. Working'
  BY DEF Working, Calling
<1>3. PlanInv'
  BY <1>1, <1>2 DEF ReportInv, PlanInv
<1>4. ExportsInv'
  <2> SUFFICES ASSUME NEW n \in Name, <<"export", n>> \in DOMAIN queries',
                      R!Current # <<"export", n>>
               PROVE  /\ queries[<<"export", n>>] # "reused"
                      /\ queries[<<"export", n>>] = "skipped" =>
                           sheetCancel \/ (platform = "macos" /\ n \in Ios)
                      /\ queries[<<"export", n>>] # "skipped"
                           /\ Sheet(<<"export", n>>) \in DOMAIN sheets' =>
                           Whole(<<"export", n>>, Sheet(<<"export", n>>))'
    BY <1>1 DEF ExportsInv, R!setting
  <2>1. /\ queries[<<"export", n>>] # "reused"
        /\ queries[<<"export", n>>] = "skipped" =>
             sheetCancel \/ (platform = "macos" /\ n \in Ios)
        /\ queries[<<"export", n>>] # "skipped" /\ Sheet(<<"export", n>>) \in DOMAIN sheets =>
             Whole(<<"export", n>>, Sheet(<<"export", n>>))
    BY DEF ReportInv, ExportsInv
  <2> QED BY <2>1 DEF Keeps, Whole, R!setting
<1>5. SamplesInv'
  <2> SUFFICES ASSUME NEW n \in Name, <<"sample", n>> \in DOMAIN queries',
                      queries'[<<"sample", n>>] = "reused"
               PROVE  /\ Sheet(<<"sample", n>>) \in DOMAIN sheets'
                      /\ \/ Whole(<<"export", n>>, Sheet(<<"sample", n>>))'
                         \/ (profile = "full" \/ sheetCancel)'
                         \/ (platform = "macos")' /\ n \in Ios
                      /\ n \in Reused /\ Sheet(<<"export", n>>) \in DOMAIN sheets'
                      /\ <<"csv", Sheet(<<"sample", n>>)>> \notin locked'
                      /\ R!Current'[1] = "sample" /\ R!Current' # <<"sample", n>>
    BY DEF SamplesInv
  <2>1. /\ Sheet(<<"sample", n>>) \in DOMAIN sheets
        /\ \/ Whole(<<"export", n>>, Sheet(<<"sample", n>>))
           \/ profile = "full" \/ sheetCancel
           \/ platform = "macos" /\ n \in Ios
        /\ n \in Reused /\ Sheet(<<"export", n>>) \in DOMAIN sheets
        /\ <<"csv", Sheet(<<"sample", n>>)>> \notin locked
        /\ R!Current[1] = "sample" /\ ~(Calling /\ R!Current = <<"sample", n>>)
    BY DEF ReportInv, SamplesInv
  <2>2. R!Current # <<"sample", n>>
    BY <2>1 DEF Working, Calling, R!Copyable, R!Unsplit, Sheet
  <2>3. /\ Sheet(<<"sample", n>>) \in DOMAIN sheets'
        /\ sheets'[Sheet(<<"sample", n>>)] = sheets[Sheet(<<"sample", n>>)]
        /\ Sheet(<<"export", n>>) \in DOMAIN sheets' <=> Sheet(<<"export", n>>) \in DOMAIN sheets
    BY <2>1, <2>2 DEF Keeps
  <2> QED BY <1>1, <2>1, <2>2, <2>3 DEF Whole, R!setting
<1>6. R!NoCallOnDeadFrame'
  BY DEF R!NoCallOnDeadFrame
<1> QED BY <1>3, <1>4, <1>5, <1>6 DEF ReportInv

\* What a reused sample is: this run's and whole, unless this run does not export
\* the query.
Copied(n) == \/ Whole(<<"export", n>>, Sheet(<<"sample", n>>))
             \/ profile = "full" \/ sheetCancel
             \/ platform = "macos" /\ n \in Ios

\* A query ends, and what it left satisfies the invariant.
LEMMA Returned ==
  ASSUME ReportInv, Working, NEW CONSTANT how, R!Return(how), Keeps,
         UNCHANGED <<R!setting, sheetCancel>>, notices \subseteq notices',
         NEW CONSTANT q, q = R!Current,
         how = "skipped" => R!Excluded,
         how \notin {"skipped", "reused"} /\ Sheet(q) \in DOMAIN sheets' => Whole(q, Sheet(q))',
         how = "reused" => /\ R!Copyable /\ Copied(q[2])'
                           /\ Sheet(q) \in DOMAIN sheets'
                           /\ Sheet(<<"export", q[2]>>) \in DOMAIN sheets'
  PROVE  ReportInv'
<1>1. PICK plan : plan = R!Plan
  OBVIOUS
<1>2. R!Plan' = plan /\ q = plan[step] /\ R!Current' = plan[step + 1]
  BY <1>1 DEF R!setting, R!Plan, R!Main, R!Included, R!Supporting, R!Current, R!Return
<1>3. PICK last \in Nat \ {0} : last = Len(plan)
  BY <1>1, PlanFacts DEF PlanInOrder
<1>4. PICK i \in 1..last : i = step
  BY <1>1, <1>3 DEF ReportInv, PlanInv
<1>5. /\ DOMAIN queries' = DOMAIN queries \cup {q}
      /\ queries'[q] = how
      /\ \A x \in DOMAIN queries : x # q => queries'[x] = queries[x]
  BY <1>1 DEF R!Return, R!Put
<1>6. /\ handler' = "none" /\ step' = i + 1
      /\ sheetStep' = IF i < last THEN "next" ELSE "finish"
      /\ ~split' /\ part' = 1 /\ inPart' = 0 /\ total' = 0
  BY <1>1, <1>3, <1>4 DEF R!Return, R!Reset
<1>7. ~Calling' /\ (Working' => i < last)
  BY <1>6 DEF Calling, Working
<1>8. CallInv' /\ R!NoCallOnDeadFrame'
  BY <1>6 DEF CallInv, R!NoCallOnDeadFrame
<1>9. PlanInv'
  <2>1. SUFFICES ASSUME Working' PROVE \A j \in 1..last : j < i + 1 => plan[j] \in DOMAIN queries'
    BY <1>2, <1>3, <1>6, <1>7 DEF PlanInv
  <2>2. \A j \in 1..last : j < i => plan[j] \in DOMAIN queries
    BY <1>1, <1>3, <1>4 DEF ReportInv, PlanInv
  <2>3. ASSUME NEW j \in 1..last, j < i + 1 PROVE j < i \/ j = i
    BY <2>3
  <2> QED BY <1>2, <1>4, <1>5, <2>2, <2>3
<1>10. q \in {"export", "sample"} \X Name
  BY <1>1, <1>2, <1>3, <1>4, PlanFacts DEF PlanInOrder
<1>11. ExportsInv'
  <2> SUFFICES ASSUME NEW n \in Name, <<"export", n>> \in DOMAIN queries'
               PROVE  /\ queries'[<<"export", n>>] # "reused"
                      /\ queries'[<<"export", n>>] = "skipped" =>
                           sheetCancel \/ (platform = "macos" /\ n \in Ios)
                      /\ queries'[<<"export", n>>] # "skipped"
                           /\ Sheet(<<"export", n>>) \in DOMAIN sheets' =>
                           Whole(<<"export", n>>, Sheet(<<"export", n>>))'
    BY DEF ExportsInv, R!setting
  <2>1. CASE q = <<"export", n>>
    <3>1. how # "reused" /\ queries'[<<"export", n>>] = how
      BY <1>5, <2>1 DEF R!Copyable
    <3>2. how = "skipped" => sheetCancel \/ (platform = "macos" /\ n \in Ios)
      BY <2>1 DEF R!Excluded
    <3> QED BY <2>1, <3>1, <3>2
  <2>2. CASE q # <<"export", n>>
    <3>1. <<"export", n>> \in DOMAIN queries /\ queries'[<<"export", n>>] = queries[<<"export", n>>]
      BY <1>5, <2>2
    <3>2. /\ queries[<<"export", n>>] # "reused"
          /\ queries[<<"export", n>>] = "skipped" =>
               sheetCancel \/ (platform = "macos" /\ n \in Ios)
          /\ queries[<<"export", n>>] # "skipped" /\ Sheet(<<"export", n>>) \in DOMAIN sheets =>
               Whole(<<"export", n>>, Sheet(<<"export", n>>))
      BY <1>1, <2>2, <3>1 DEF ReportInv, ExportsInv
    <3> QED BY <1>1, <2>2, <3>1, <3>2 DEF Keeps, Whole, R!setting
  <2> QED BY <2>1, <2>2
<1>12. SamplesInv'
  <2> SUFFICES ASSUME NEW n \in Name, <<"sample", n>> \in DOMAIN queries',
                      queries'[<<"sample", n>>] = "reused"
               PROVE  /\ Sheet(<<"sample", n>>) \in DOMAIN sheets' /\ Copied(n)'
                      /\ Working' => /\ n \in Reused /\ Sheet(<<"export", n>>) \in DOMAIN sheets'
                                     /\ <<"csv", Sheet(<<"sample", n>>)>> \notin locked'
                                     /\ plan[step + 1][1] = "sample"
    BY <1>2, <1>7 DEF SamplesInv, Copied
  <2>1. /\ Sheet(<<"sample", n>>) \in DOMAIN sheets'
        /\ Copied(n)' /\ n \in Reused /\ Sheet(<<"export", n>>) \in DOMAIN sheets'
        /\ <<"csv", Sheet(<<"sample", n>>)>> \notin locked' /\ q[1] = "sample"
    <3>1. CASE q = <<"sample", n>>
      <4>1. how = "reused"
        BY <1>5, <3>1
      <4>2. q[2] = n /\ q[1] = "sample"
        BY <3>1
      <4>3. /\ Copied(n)' /\ Sheet(<<"export", n>>) \in DOMAIN sheets'
            /\ Sheet(<<"sample", n>>) \in DOMAIN sheets'
        BY <3>1, <4>1, <4>2, Zenon
      <4>4. n \in Reused /\ <<"csv", Sheet(<<"sample", n>>)>> \notin locked'
        BY <3>1, <4>1, <4>2 DEF R!Copyable, Sheet, R!setting
      <4> QED BY <4>2, <4>3, <4>4
    <3>2. CASE q # <<"sample", n>>
      <4>1. <<"sample", n>> \in DOMAIN queries /\ queries[<<"sample", n>>] = "reused"
        BY <1>5, <3>2
      <4>2. /\ Sheet(<<"sample", n>>) \in DOMAIN sheets
            /\ Copied(n)
            /\ n \in Reused /\ Sheet(<<"export", n>>) \in DOMAIN sheets
            /\ <<"csv", Sheet(<<"sample", n>>)>> \notin locked
            /\ q[1] = "sample"
        BY <1>1, <4>1 DEF ReportInv, SamplesInv, Copied
      <4>3. /\ Sheet(<<"sample", n>>) \in DOMAIN sheets'
            /\ sheets'[Sheet(<<"sample", n>>)] = sheets[Sheet(<<"sample", n>>)]
            /\ Sheet(<<"export", n>>) \in DOMAIN sheets'
        BY <1>1, <3>2, <4>2 DEF Keeps
      <4>4. locked' = locked /\ Copied(n)'
        BY <4>2, <4>3 DEF Copied, Whole, R!setting
      <4> QED BY <4>2, <4>3, <4>4
    <3> QED BY <3>1, <3>2
  <2>2. ASSUME Working' PROVE plan[step + 1][1] = "sample"
    <3>1. i < last /\ i + 1 \in 1..last
      BY <1>7, <2>2
    <3> QED BY <1>1, <1>2, <1>3, <1>4, <2>1, <3>1, PlanFacts DEF PlanInOrder
  <2> QED BY <2>1, <2>2
<1> QED BY <1>8, <1>9, <1>11, <1>12 DEF ReportInv

-----------------------------------------------------------------------------
(* The steps of a call.                                                    *)

\* Writing a sheet of this call changes no other.
LEMMA PutKeeps ==
  ASSUME NEW CONSTANT p, NEW CONSTANT y, sheets' = R!Put(sheets, <<R!Current, p>>, y)
  PROVE  Keeps
BY DEF Keeps, R!Put, Sheet

\* Nor does writing none.
LEMMA SameKeeps == UNCHANGED sheets => Keeps
BY DEF Keeps

\* Renaming the first part touches the sheets of this call only.
LEMMA RenamedKeeps ==
  /\ \A t \in {"export", "sample"}, n \in Name :
       <<t, n>> # R!Current =>
         /\ Sheet(<<t, n>>) \in DOMAIN R!Renamed <=> Sheet(<<t, n>>) \in DOMAIN sheets
         /\ Sheet(<<t, n>>) \in DOMAIN sheets =>
              R!Renamed[Sheet(<<t, n>>)] = sheets[Sheet(<<t, n>>)]
  /\ ~split => Sheet(R!Current) \notin DOMAIN R!Renamed
  /\ split => R!Renamed = sheets
<1>1. CASE split
  BY <1>1 DEF R!Renamed
<1>2. CASE ~split
  <2>1. PICK less : less = [f \in DOMAIN sheets \ {<<R!Current, 0>>} |-> sheets[f]]
    OBVIOUS
  <2>2. R!Renamed = R!Put(less, <<R!Current, 1>>, sheets[<<R!Current, 0>>])
    BY <1>2, <2>1 DEF R!Renamed, R!FirstPart
  <2>3. /\ DOMAIN R!Renamed = (DOMAIN sheets \ {<<R!Current, 0>>}) \cup {<<R!Current, 1>>}
        /\ \A f \in DOMAIN sheets \ {<<R!Current, 0>>} :
             f # <<R!Current, 1>> => R!Renamed[f] = sheets[f]
    BY <2>1, <2>2 DEF R!Put
  <2>4. ASSUME NEW t \in {"export", "sample"}, NEW n \in Name, <<t, n>> # R!Current
        PROVE  /\ Sheet(<<t, n>>) \in DOMAIN R!Renamed <=> Sheet(<<t, n>>) \in DOMAIN sheets
               /\ Sheet(<<t, n>>) \in DOMAIN sheets =>
                    R!Renamed[Sheet(<<t, n>>)] = sheets[Sheet(<<t, n>>)]
    <3>1. Sheet(<<t, n>>) # <<R!Current, 0>> /\ Sheet(<<t, n>>) # <<R!Current, 1>>
      BY <2>4 DEF Sheet
    <3>2. Sheet(<<t, n>>) \in DOMAIN R!Renamed <=> Sheet(<<t, n>>) \in DOMAIN sheets
      BY <2>3, <3>1
    <3>3. CASE Sheet(<<t, n>>) \in DOMAIN sheets
      BY <2>3, <3>1, <3>2, <3>3
    <3> QED BY <3>2, <3>3
  <2>5. Sheet(R!Current) \notin DOMAIN R!Renamed
    BY <2>3 DEF Sheet
  <2> QED BY <1>2, <2>4, <2>5
<1> QED BY <1>1, <1>2

\* The query the run is at is one of its list.
LEMMA CurrentQuery == ReportInv /\ Working => R!Current \in {"export", "sample"} \X Name
BY PlanFacts DEF PlanInOrder, ReportInv, PlanInv, R!Current

\* A query is skipped because the run was cancelled, or on a macOS source.
LEMMA SkipStep == ReportInv /\ R!Skip => ReportInv'
<1> SUFFICES ASSUME ReportInv, R!Skip PROVE ReportInv'
  OBVIOUS
<1>1. PICK how : how = "skipped"
  OBVIOUS
<1>2. PICK q : q = R!Current
  OBVIOUS
<1>3. /\ Working /\ R!Return(how) /\ R!Excluded
      /\ UNCHANGED <<R!setting, sheetCancel, sheets, notices>>
  BY <1>1 DEF R!Skip, Working, R!disk
<1> QED BY <1>1, <1>2, <1>3, SameKeeps, Returned

\* What is to be known of the sheets of a call that goes on.
LEMMA CallGoesOn ==
  ASSUME UNCHANGED <<R!setting, step>>, sheetStep' \in {"rows", "roll"}, part' \in Nat \ {0},
         handler' # "dead", NEW CONSTANT q, q = R!Current,
         split' => Sheet(q) \notin DOMAIN sheets',
         ~split' => /\ Sheet(q) \in DOMAIN sheets' /\ inPart' = total'
                    /\ sheets'[Sheet(q)].run = sheetRun /\ sheets'[Sheet(q)].rows = total'
  PROVE  CallInv'
<1>1. R!Current' = q /\ sheetRun' = sheetRun
  BY SamePlan DEF R!setting
<1> QED BY <1>1 DEF CallInv

\* A sheet that is there when it is copied is of this run, and whole, unless this run
\* does not export the query: the exports of the list have ended by then.
LEMMA ReuseStep == ReportInv /\ R!ReuseExport => ReportInv'
<1> SUFFICES ASSUME ReportInv, R!ReuseExport PROVE ReportInv'
  OBVIOUS
<1>1. PICK how : how = "reused"
  OBVIOUS
<1>2. PICK q : q = R!Current
  OBVIOUS
<1>3. /\ Working /\ ~Calling /\ R!Return(how) /\ R!Copyable
      /\ UNCHANGED <<R!setting, sheetCancel, notices>>
      /\ sheets' = R!Put(sheets, <<R!Current, 0>>, sheets[R!Unsplit(q[2])])
  BY <1>1, <1>2 DEF R!ReuseExport, Working, Calling
<1>4. PICK n \in Name : q = <<"sample", n>> /\ n \in Reused
  BY <1>2, <1>3, CurrentQuery DEF R!Copyable
<1>5. Sheet(<<"export", n>>) \in DOMAIN sheets /\ R!Unsplit(q[2]) = Sheet(<<"export", n>>)
  BY <1>2, <1>3, <1>4 DEF R!Copyable, R!Unsplit, Sheet
<1>6. /\ Sheet(q) \in DOMAIN sheets' /\ Sheet(<<"export", n>>) \in DOMAIN sheets'
      /\ sheets'[Sheet(q)] = sheets[Sheet(<<"export", n>>)]
  BY <1>2, <1>3, <1>5 DEF R!Put, Sheet
<1>7. Copied(n)'
  <2>1. CASE profile = "full"
    BY <1>3, <2>1 DEF Copied, R!setting
  <2>2. CASE profile # "full"
    <3>0. PICK j \in 1..Len(R!Plan) : j = step /\ R!Plan[j] = <<"sample", n>>
      BY <1>2, <1>3, <1>4 DEF ReportInv, PlanInv, R!Current
    <3>1. PICK i \in 1..Len(R!Plan) : i < step /\ R!Plan[i] = <<"export", n>>
      <4>1. R!Plan[j][1] = "sample" /\ R!Plan[j][2] = n
        BY <3>0
      <4> QED BY <1>4, <2>2, <3>0, <4>1, PlanFacts DEF PlanInOrder
    <3>2. <<"export", n>> \in DOMAIN queries
      BY <1>3, <3>1 DEF ReportInv, PlanInv
    <3>3. \/ Whole(<<"export", n>>, Sheet(<<"export", n>>)) \/ sheetCancel
          \/ platform = "macos" /\ n \in Ios
      BY <1>3, <1>5, <3>2 DEF ReportInv, ExportsInv
    <3> QED BY <1>3, <1>4, <1>6, <3>3 DEF Copied, Whole, R!setting
  <2> QED BY <2>1, <2>2
<1>8. Keeps
  BY <1>3, PutKeeps
<1>9. Copied(q[2])' /\ Sheet(<<"export", q[2]>>) \in DOMAIN sheets'
  BY <1>4, <1>6, <1>7
<1> QED BY <1>1, <1>2, <1>3, <1>6, <1>8, <1>9, Returned

\* A call begins for queries that cannot be copied.
LEMMA BeginStep == ReportInv /\ R!Begin => ReportInv'
<1> SUFFICES ASSUME ReportInv, R!Begin PROVE ReportInv'
  OBVIOUS
<1>1. /\ Working /\ Calling' /\ UNCHANGED <<R!setting, sheetCancel, step, queries, notices>>
      /\ handler' # "dead" /\ ~R!Copyable /\ UNCHANGED sheets
  BY DEF R!Begin, Working, Calling, R!disk
<1>2. CallInv'
  BY DEF R!Begin, ReportInv, CallInv, R!call
<1> QED BY <1>1, <1>2, SameKeeps, Within

\* The unsplit file is opened, or the handler of this call is left behind.
LEMMA OpenStep == ReportInv /\ R!Open => ReportInv'
<1> SUFFICES ASSUME ReportInv, R!Open PROVE ReportInv'
  OBVIOUS
<1>1. sheetStep = "open" /\ Working /\ Calling /\ ~split /\ inPart = 0 /\ total = 0 /\ part = 1
  BY DEF R!Open, ReportInv, CallInv, Working, Calling
<1>2. R!Out = <<R!Current, 0>>
  BY <1>1 DEF R!Out
<1>3. CASE <<"csv", R!Out>> \in locked
  <2>1. R!Throw("dead") /\ UNCHANGED R!disk
    BY <1>3 DEF R!Open
  <2>2. /\ ~Working' /\ R!Reset /\ UNCHANGED <<R!setting, sheetCancel, queries, notices, sheets>>
    BY <2>1 DEF R!Throw, R!Die, R!disk, Working
  <2>3. R!NoCallOnDeadFrame'
    <3> SUFFICES ASSUME handler' = "dead"
                 PROVE  profile' = "full" /\ \E n \in Name : <<"csv", <<<<"sample", n>>, 0>>>> \in locked'
      BY DEF R!NoCallOnDeadFrame
    <3>1. R!Current[1] = "sample" /\ profile = "full"
      BY <2>1 DEF R!Throw, R!Die
    <3>2. PICK n \in Name : R!Current = <<"sample", n>>
      BY <1>1, <3>1, CurrentQuery
    <3> QED BY <1>2, <1>3, <2>2, <3>1, <3>2 DEF R!setting
  <2>4. handler' = "dead" => sheetStep' = "finish"
    BY <2>1 DEF R!Throw, R!Die
  <2>5. /\ UNCHANGED R!setting /\ UNCHANGED <<sheetCancel, queries, notices>>
        /\ UNCHANGED sheets \/ (Calling /\ Keeps)
        /\ R!Reset \/ (sheetStep = "finish" /\ UNCHANGED R!call)
    BY <2>2
  <2> QED BY <2>2, <2>3, <2>4, <2>5, Left, Zenon
<1>4. CASE <<"csv", R!Out>> \notin locked
  <2>1. /\ sheets' = R!Put(sheets, <<R!Current, 0>>, R!Holding) /\ sheetStep' = "rows"
        /\ UNCHANGED <<R!setting, sheetCancel, handler, step, R!call, queries, notices>>
    BY <1>2, <1>4 DEF R!Open
  <2>5. PICK q : q = R!Current
    OBVIOUS
  <2>2. Calling' /\ Keeps
    BY <2>1, PutKeeps DEF Calling
  <2>3. handler' # "dead"
    BY <1>1, <2>1 DEF ReportInv, CallInv
  <2>4. CallInv'
    <3>1. /\ Sheet(q) \in DOMAIN sheets' /\ sheets'[Sheet(q)].run = sheetRun
          /\ sheets'[Sheet(q)].rows = 0
      BY <1>1, <2>1, <2>5 DEF R!Put, R!Holding, Sheet
    <3>2. ~split' /\ part' = 1 /\ inPart' = 0 /\ total' = 0
      BY <1>1, <2>1 DEF R!call
    <3> QED BY <2>1, <2>3, <2>5, <3>1, <3>2, CallGoesOn
  <2> QED BY <1>1, <2>1, <2>2, <2>3, <2>4, Within
<1> QED BY <1>3, <1>4

\* A row goes to the file of the call.
LEMMA WriteRowStep == ReportInv /\ R!WriteRow => ReportInv'
<1> SUFFICES ASSUME ReportInv, R!WriteRow PROVE ReportInv'
  OBVIOUS
<1>1. PICK q, p : q = R!Current /\ p = IF split THEN part ELSE 0
  OBVIOUS
<1>2. /\ sheetStep = "rows" /\ sheetStep' = "rows" /\ total' = total + 1 /\ inPart' = inPart + 1
      /\ sheets' = R!Put(sheets, <<R!Current, p>>, [R!Holding EXCEPT !.rows = @ + 1])
      /\ UNCHANGED <<R!setting, sheetCancel, handler, step, split, part, queries, notices>>
  BY <1>1 DEF R!WriteRow, R!Out
<1>3. PICK rest : rest = R!Holding
  OBVIOUS
<1>4. rest.run = sheetRun /\ rest.rows = inPart /\ rest = [run |-> sheetRun, first |-> total - inPart + 1, rows |-> inPart]
  BY <1>3 DEF R!Holding
<1>5. PICK new : new = [rest EXCEPT !.rows = @ + 1]
  OBVIOUS
<1>6. new.run = sheetRun /\ new.rows = inPart + 1 /\ sheets' = R!Put(sheets, <<R!Current, p>>, new)
  BY <1>2, <1>3, <1>4, <1>5
<1>7. Working /\ Calling' /\ Keeps
  BY <1>2, <1>6, PutKeeps DEF Working, Calling
<1>8. handler' # "dead" /\ part' \in Nat \ {0}
  BY <1>2 DEF ReportInv, CallInv
<1>9. split' => Sheet(q) \notin DOMAIN sheets'
  <2> SUFFICES ASSUME split PROVE Sheet(q) \notin DOMAIN sheets'
    BY <1>2
  <2>1. Sheet(q) \notin DOMAIN sheets /\ p = part /\ part # 0
    BY <1>1, <1>2 DEF ReportInv, CallInv
  <2> QED BY <1>6, <2>1 DEF R!Put, Sheet
<1>10. ~split' => /\ Sheet(q) \in DOMAIN sheets' /\ inPart' = total'
                  /\ sheets'[Sheet(q)].run = sheetRun /\ sheets'[Sheet(q)].rows = total'
  <2> SUFFICES ASSUME ~split PROVE /\ Sheet(q) \in DOMAIN sheets' /\ inPart' = total'
                                   /\ sheets'[Sheet(q)].run = sheetRun /\ sheets'[Sheet(q)].rows = total'
    BY <1>2
  <2>1. Sheet(q) = <<R!Current, p>> /\ inPart = total
    BY <1>1, <1>2 DEF ReportInv, CallInv, Sheet
  <2>2. Sheet(q) \in DOMAIN sheets' /\ sheets'[Sheet(q)] = new
    BY <1>6, <2>1 DEF R!Put
  <2> QED BY <1>2, <1>6, <2>1, <2>2
<1>11. CallInv'
  BY <1>1, <1>2, <1>8, <1>9, <1>10, CallGoesOn
<1>12. sheetStep # "next"
  BY <1>2
<1> QED BY <1>2, <1>7, <1>8, <1>11, <1>12, Within

\* A full part changes nothing yet.
LEMMA FillStep == ReportInv /\ R!Fill => ReportInv'
<1> SUFFICES ASSUME ReportInv, R!Fill PROVE ReportInv'
  OBVIOUS
<1>1. PICK q : q = R!Current
  OBVIOUS
<1>2. /\ sheetStep = "rows" /\ sheetStep' = "roll" /\ Working /\ Calling' /\ UNCHANGED sheets
      /\ UNCHANGED <<R!setting, sheetCancel, handler, step, split, part, inPart, total, queries, notices>>
  BY DEF R!Fill, Working, Calling, R!call, R!disk
<1>3. handler' # "dead" /\ part' \in Nat \ {0}
  BY <1>2 DEF ReportInv, CallInv
<1>4. /\ split' => Sheet(q) \notin DOMAIN sheets'
      /\ ~split' => /\ Sheet(q) \in DOMAIN sheets' /\ inPart' = total'
                    /\ sheets'[Sheet(q)].run = sheetRun /\ sheets'[Sheet(q)].rows = total'
  BY <1>1, <1>2 DEF ReportInv, CallInv
<1>5. CallInv'
  BY <1>1, <1>2, <1>3, <1>4, CallGoesOn
<1>6. sheetStep # "next"
  BY <1>2
<1> QED BY <1>2, <1>3, <1>5, <1>6, SameKeeps, Within

\* After the first part was renamed there is no unsplit file.
LEMMA NextPartStep == ReportInv /\ R!NextPart => ReportInv'
<1> SUFFICES ASSUME ReportInv, R!NextPart PROVE ReportInv'
  OBVIOUS
<1>1. PICK q, renamed : q = R!Current /\ renamed = R!Renamed
  OBVIOUS
<1>2. PICK new : new = [run |-> sheetRun, first |-> total + 1, rows |-> 1]
  OBVIOUS
<1>3. /\ sheetStep = "roll" /\ sheetStep' = "rows" /\ split' = TRUE /\ part' = part + 1
      /\ sheets' = R!Put(renamed, <<q, part + 1>>, new)
      /\ UNCHANGED <<R!setting, sheetCancel, handler, step, queries, notices>>
  BY <1>1, <1>2 DEF R!NextPart, R!NewPart
<1>4. handler' # "dead" /\ part \in Nat \ {0} /\ part' \in Nat \ {0}
  BY <1>3 DEF ReportInv, CallInv
<1>5. Sheet(q) \notin DOMAIN renamed
  <2>1. CASE split
    BY <1>1, <1>3, <2>1, RenamedKeeps DEF ReportInv, CallInv
  <2>2. CASE ~split
    BY <1>1, <2>2, RenamedKeeps
  <2> QED BY <2>1, <2>2
<1>6. Sheet(q) \notin DOMAIN sheets'
  BY <1>3, <1>4, <1>5 DEF R!Put, Sheet
<1>7. Keeps
  <2> SUFFICES ASSUME NEW t \in {"export", "sample"}, NEW n \in Name, <<t, n>> # q
               PROVE  /\ Sheet(<<t, n>>) \in DOMAIN sheets' <=> Sheet(<<t, n>>) \in DOMAIN sheets
                      /\ Sheet(<<t, n>>) \in DOMAIN sheets =>
                           sheets'[Sheet(<<t, n>>)] = sheets[Sheet(<<t, n>>)]
    BY <1>1 DEF Keeps
  <2>1. /\ Sheet(<<t, n>>) \in DOMAIN renamed <=> Sheet(<<t, n>>) \in DOMAIN sheets
        /\ Sheet(<<t, n>>) \in DOMAIN sheets => renamed[Sheet(<<t, n>>)] = sheets[Sheet(<<t, n>>)]
    BY <1>1, RenamedKeeps
  <2>2. Sheet(<<t, n>>) # <<q, part + 1>>
    BY DEF Sheet
  <2> QED BY <1>3, <2>1, <2>2 DEF R!Put
<1>8. CallInv'
  BY <1>1, <1>3, <1>4, <1>6, CallGoesOn
<1>9. Working /\ Calling' /\ sheetStep # "next"
  BY <1>3 DEF Working, Calling
<1> QED BY <1>3, <1>4, <1>7, <1>8, <1>9, Within

\* A part that cannot be renamed or opened: the end of the call if it was cancelled,
\* else of the run or of the samples.
LEMMA NextPartFailsStep == ReportInv /\ R!NextPartFails => ReportInv'
<1> SUFFICES ASSUME ReportInv, R!NextPartFails PROVE ReportInv'
  OBVIOUS
<1>1. sheetStep = "roll" /\ Working /\ Calling /\ sheets' = IF R!RenameFails THEN sheets ELSE R!Renamed
  BY DEF R!NextPartFails, Working, Calling
<1>2. Keeps
  BY <1>1, RenamedKeeps DEF Keeps
<1>3. CASE sheetCancel
  <2>1. PICK how, q : how = "cancelled" /\ q = R!Current
    OBVIOUS
  <2>2. R!Return(how) /\ UNCHANGED <<R!setting, sheetCancel>> /\ notices' = notices
    BY <1>3, <2>1 DEF R!NextPartFails
  <2>3. /\ how = "skipped" => R!Excluded
        /\ how = "reused" => /\ R!Copyable /\ Copied(q[2])' /\ Sheet(q) \in DOMAIN sheets'
                             /\ Sheet(<<"export", q[2]>>) \in DOMAIN sheets'
    BY <2>1
  <2>4. Sheet(q) \in DOMAIN sheets' => Whole(q, Sheet(q))'
    <3>1. CASE R!RenameFails
      <4>1. ~split /\ sheets' = sheets /\ sheets[Sheet(q)].run = sheetRun
        BY <1>1, <2>1, <3>1 DEF R!RenameFails, ReportInv, CallInv
      <4> QED BY <1>3, <2>2, <4>1 DEF Whole, R!setting
    <3>2. CASE ~R!RenameFails
      BY <1>1, <2>1, <3>2, RenamedKeeps DEF ReportInv, CallInv
    <3> QED BY <3>1, <3>2
  <2>5. notices \subseteq notices'
    BY <2>2
  <2>6. how \notin {"skipped", "reused"} /\ Sheet(q) \in DOMAIN sheets' => Whole(q, Sheet(q))'
    BY <2>4
  <2>7. Working /\ q = R!Current
    BY <1>1, <2>1
  <2> QED BY <1>2, <2>2, <2>3, <2>5, <2>6, <2>7, Returned
<1>4. CASE ~sheetCancel
  <2>1. R!Throw("none") /\ UNCHANGED notices
    BY <1>4 DEF R!NextPartFails
  <2>2. /\ ~Working' /\ handler' = "none" /\ UNCHANGED R!setting
        /\ UNCHANGED <<sheetCancel, queries, notices>>
        /\ R!Reset \/ (sheetStep = "finish" /\ UNCHANGED R!call)
    BY <2>1 DEF R!Throw, R!Die, Working
  <2>3. R!NoCallOnDeadFrame' /\ (handler' = "dead" => sheetStep' = "finish")
    BY <2>2 DEF R!NoCallOnDeadFrame
  <2>4. UNCHANGED sheets \/ (Calling /\ Keeps)
    BY <1>1, <1>2
  <2> QED BY <2>2, <2>3, <2>4, Left, Zenon
<1> QED BY <1>3, <1>4

\* A call that comes to its end: what it wrote is whole, noticed or cancelled.
LEMMA CloseStep ==
  ASSUME ReportInv, sheetStep = "rows", NEW CONSTANT how, how \notin {"skipped", "reused"},
         R!Close(how), notices \subseteq notices',
         total = size \/ sheetCancel \/ R!Current \in notices'
  PROVE  ReportInv'
<1>1. PICK q : q = R!Current
  OBVIOUS
<1>2. R!Return(how) /\ UNCHANGED <<R!setting, sheetCancel>> /\ UNCHANGED sheets
  BY DEF R!Close
<1>3. Working
  BY DEF Working
<1>4. Sheet(q) \in DOMAIN sheets' => Whole(q, Sheet(q))'
  <2> SUFFICES ASSUME Sheet(q) \in DOMAIN sheets PROVE Whole(q, Sheet(q))'
    BY <1>2
  <2>1. sheets[Sheet(q)].run = sheetRun /\ sheets[Sheet(q)].rows = total
    BY <1>1 DEF ReportInv, CallInv
  <2> QED BY <1>1, <1>2, <2>1 DEF Whole, R!setting
<1> QED BY <1>1, <1>2, <1>3, <1>4, SameKeeps, Returned

\* The three ways a call comes to its end.
LEMMA ClosingSteps ==
  ReportInv /\ (R!TimeOut \/ R!Cancelled \/ R!Done) => ReportInv'
<1> SUFFICES ASSUME ReportInv, R!TimeOut \/ R!Cancelled \/ R!Done PROVE ReportInv'
  OBVIOUS
<1>1. CASE R!TimeOut
  <2>1. PICK how : how = "timed out"
    OBVIOUS
  <2> QED BY <1>1, <2>1, CloseStep DEF R!TimeOut
<1>2. CASE R!Cancelled
  <2>1. PICK how : how = "cancelled"
    OBVIOUS
  <2> QED BY <1>2, <2>1, CloseStep DEF R!Cancelled
<1>3. CASE R!Done
  <2>1. PICK how : how = "written"
    OBVIOUS
  <2> QED BY <1>3, <2>1, CloseStep DEF R!Done
<1> QED BY <1>1, <1>2, <1>3

\* Runs begin, die and come to their end.
LEMMA RunSteps ==
  ASSUME ReportInv,
         \/ \E p, s, n, l : R!StartRun(p, s, n, l)
         \/ R!SuppressedRun \/ R!Crash \/ R!Finish \/ R!FinishInterrupted
  PROVE  ReportInv'
<1>0. CallInv /\ R!NoCallOnDeadFrame
  BY DEF ReportInv
<1>1. ASSUME NEW p, NEW s, NEW n, NEW l, R!StartRun(p, s, n, l) PROVE ReportInv'
  <2>1. queries' = <<>> /\ step' = 1 /\ handler' = "none"
    BY <1>1 DEF R!StartRun
  <2>2. CallInv'
    BY <1>0, <1>1 DEF R!StartRun, CallInv, R!call
  <2>3. R!NoCallOnDeadFrame'
    BY <2>1 DEF R!NoCallOnDeadFrame
  <2> QED BY <2>1, <2>2, <2>3, Forgotten
<1>2. CASE R!SuppressedRun
  <2>1. queries' = <<>> /\ ~Working'
    BY <1>2 DEF R!SuppressedRun, Working
  <2>2. CallInv'
    BY <1>0, <1>2 DEF R!SuppressedRun, CallInv, R!call
  <2>3. R!NoCallOnDeadFrame'
    BY <1>0, <1>2 DEF R!SuppressedRun, R!NoCallOnDeadFrame
  <2> QED BY <2>1, <2>2, <2>3, Forgotten
<1>3. CASE R!Crash
  <2>1. queries' = <<>> /\ ~Working' /\ handler' = "none"
    BY <1>3 DEF R!Crash, Working
  <2>2. CallInv'
    BY <1>3 DEF R!Crash, R!Reset, CallInv
  <2>3. R!NoCallOnDeadFrame'
    BY <2>1 DEF R!NoCallOnDeadFrame
  <2> QED BY <2>1, <2>2, <2>3, Forgotten
<1>4. CASE R!Finish
  <2>1. /\ ~Working' /\ handler' = "none" /\ UNCHANGED R!setting
        /\ UNCHANGED <<sheetCancel, queries, notices>> /\ UNCHANGED sheets
        /\ sheetStep = "finish" /\ UNCHANGED R!call
    BY <1>4 DEF R!Finish, R!disk, Working
  <2>2. R!NoCallOnDeadFrame' /\ (handler' = "dead" => sheetStep' = "finish")
    BY <2>1 DEF R!NoCallOnDeadFrame
  <2> QED BY <2>1, <2>2, Left, Zenon
<1>5. CASE R!FinishInterrupted
  <2>1. /\ ~Working' /\ handler' = "none" /\ UNCHANGED R!setting
        /\ UNCHANGED <<sheetCancel, queries, notices>> /\ UNCHANGED sheets /\ R!Reset
    BY <1>5 DEF R!FinishInterrupted, R!Die, R!disk, Working
  <2>2. R!NoCallOnDeadFrame' /\ (handler' = "dead" => sheetStep' = "finish")
    BY <2>1 DEF R!NoCallOnDeadFrame
  <2> QED BY <2>1, <2>2, Left, Zenon
<1> QED BY <1>1, <1>2, <1>3, <1>4, <1>5

\* A cancellation makes every claim weaker.
LEMMA CancelStep == ReportInv /\ R!RequestCancel => ReportInv'
<1> SUFFICES ASSUME ReportInv, R!RequestCancel PROVE ReportInv'
  OBVIOUS
<1>1. /\ UNCHANGED R!setting /\ UNCHANGED R!call
      /\ UNCHANGED <<handler, sheetStep, step, queries, sheets, notices>> /\ sheetCancel'
  BY DEF R!RequestCancel, R!disk
<1>2. R!Plan' = R!Plan /\ R!Current' = R!Current /\ Working' = Working /\ Calling' = Calling
  BY <1>1, SamePlan DEF Working, Calling
<1>3. PlanInv'
  BY <1>1, <1>2 DEF ReportInv, PlanInv
<1>4. CallInv'
  BY <1>1, <1>2 DEF ReportInv, CallInv, R!call, R!setting
<1>5. ExportsInv'
  <2>1. \A n \in Name :
          /\ <<"export", n>> \in DOMAIN queries /\ ~(Calling /\ R!Current = <<"export", n>>) /\ Working =>
               /\ queries[<<"export", n>>] # "reused"
               /\ queries[<<"export", n>>] # "skipped" /\ Sheet(<<"export", n>>) \in DOMAIN sheets =>
                    Whole(<<"export", n>>, Sheet(<<"export", n>>))
    BY DEF ReportInv, ExportsInv
  <2> QED BY <1>1, <1>2, <2>1 DEF ExportsInv, Whole, R!setting
<1>6. SamplesInv'
  BY <1>1, <1>2 DEF ReportInv, SamplesInv, R!setting
<1>7. R!NoCallOnDeadFrame'
  BY <1>1 DEF ReportInv, R!NoCallOnDeadFrame, R!setting
<1> QED BY <1>3, <1>4, <1>5, <1>6, <1>7 DEF ReportInv

-----------------------------------------------------------------------------
(* The specification.                                                      *)

\* Every step of an export keeps the invariant.
LEMMA ReportNext == ReportInv /\ R!Next => ReportInv'
<1> SUFFICES ASSUME ReportInv, R!Next PROVE ReportInv'
  OBVIOUS
<1>1. CASE \E k \in Packages, l \in {{}} \cup {{x} : x \in R!Lockable} : R!StartRun(k[1], k[2], k[3], l)
  BY <1>1, RunSteps
<1>2. CASE R!SuppressedRun \/ R!Crash \/ R!Finish \/ R!FinishInterrupted
  BY <1>2, RunSteps
<1>3. CASE R!RequestCancel
  BY <1>3, CancelStep
<1>4. CASE R!Skip \/ R!ReuseExport \/ R!Begin \/ R!Open
  BY <1>4, SkipStep, ReuseStep, BeginStep, OpenStep
<1>5. CASE R!WriteRow \/ R!Fill \/ R!NextPart \/ R!NextPartFails
  BY <1>5, WriteRowStep, FillStep, NextPartStep, NextPartFailsStep
<1>6. CASE R!TimeOut \/ R!Cancelled \/ R!Done
  BY <1>6, ClosingSteps
<1> QED BY <1>1, <1>2, <1>3, <1>4, <1>5, <1>6 DEF R!Next

\* What holds of the packages says nothing of the other two sides.
SheetsInv == side = "report" => ReportInv

\* The steps of the other sides leave the folder of the packages alone.
LEMMA SheetsAlways == RunsSpec => []SheetsInv
<1>1. RunsInit => SheetsInv
  BY ReportInit DEF RunsInit, SheetsInv
<1>2. SheetsInv /\ [RunsNext]_runsVars => SheetsInv'
  <2> SUFFICES ASSUME SheetsInv, [RunsNext]_runsVars PROVE SheetsInv'
    OBVIOUS
  <2>1. CASE PipelineStep \/ ViewsStep
    BY <2>1 DEF PipelineStep, ViewsStep, SheetsInv
  <2>2. CASE ReportStep
    BY <2>2, ReportNext DEF ReportStep, SheetsInv
  <2>3. CASE UNCHANGED runsVars
    <3>1. UNCHANGED side /\ UNCHANGED reportOnly
      BY <2>3 DEF runsVars
    <3>2. UNCHANGED <<sheetRun, profile, platform, size, sheetCancel, locked, handler, sheetStep,
                      step, split, part, inPart, total, queries, sheets, notices>>
      BY <3>1 DEF reportOnly
    <3>3. ReportInv' = ReportInv
      BY <3>2 DEF ReportInv, PlanInv, CallInv, ExportsInv, SamplesInv, R!NoCallOnDeadFrame,
                  Whole, Working, Calling, Sheet, R!Current, R!Plan, R!Main, R!Included, R!Supporting
    <3> QED BY <3>1, <3>3 DEF SheetsInv
  <2> QED BY <2>1, <2>2, <2>3 DEF RunsNext
<1> QED BY <1>1, <1>2, PTL DEF RunsSpec

\* An upload sample that was copied from an export is this run's, as complete as the
\* export's own notice says, unless this run does not export the query
\* (reuseFullExportAsSample copies whatever it finds in the folder).
THEOREM SamplesStayCurrent == RunsSpec => []SamplesAreCurrent
<1>1. SheetsInv => SamplesAreCurrent
  <2> SUFFICES ASSUME SheetsInv, side = "report", NEW n \in Name,
                      <<"sample", n>> \in DOMAIN queries, queries[<<"sample", n>>] = "reused"
               PROVE  \/ /\ sheets[<<<<"sample", n>>, 0>>].run = sheetRun
                         /\ \/ sheets[<<<<"sample", n>>, 0>>].rows = size
                            \/ <<"export", n>> \in notices
                      \/ profile = "full" \/ sheetCancel
                      \/ platform = "macos" /\ n \in Ios
    BY DEF SamplesAreCurrent, R!SamplesAreCurrent
  <2> QED BY DEF SheetsInv, ReportInv, SamplesInv, Whole, Sheet
<1> QED BY <1>1, SheetsAlways, PTL

\* SQL runs under the progress handler of a call that has returned in one case only:
\* the full profile could not open the sheet of a sample.
THEOREM HandlersAreTakenBack == RunsSpec => []NoCallOnDeadFrame
<1>1. SheetsInv => NoCallOnDeadFrame
  BY DEF SheetsInv, NoCallOnDeadFrame, ReportInv
<1> QED BY <1>1, SheetsAlways, PTL

-----------------------------------------------------------------------------
(* The rows a manifest counts.                                             *)

\* One pair for each of them: an entry, and a row of it.
Lines(m) == {p \in (DOMAIN m) \X (1..MaxRows) : p[2] <= m[p[1]][2]}

\* RowsOf counts them; Cardinality is the same operator here and in that module.
LEMMA RowsAre == \A m : R!RowsOf(m) = Cardinality(Lines(m))
<1>1. \A S : R!Cardinality(S) = Cardinality(S)
  BY DEF R!Cardinality, Cardinality
<1>2. \A m : R!RowsOf(m) = R!Cardinality(Lines(m))
  BY DEF R!RowsOf, Lines
<1> QED BY <1>1, <1>2

\* An empty manifest counts none.
LEMMA NoRows == R!RowsOf(<<>>) = 0
<1>1. Lines(<<>>) = {}
  BY DEF Lines
<1> QED BY <1>1, RowsAre, FS_EmptySet

\* A manifest with one more entry counts the rows of that entry in addition.
LEMMA RowsAppended ==
  ASSUME NEW m \in Seq(R!Row), NEW p \in R!Part, NEW n \in 0..MaxRows
  PROVE  /\ R!RowsOf(m) \in Nat
         /\ R!RowsOf(Append(m, <<p, n>>)) = R!RowsOf(m) + n
<1>1. MaxRows \in Nat
  BY ReportAssumptions DEF R!SizeAssumption
<1>2. PICK l \in Nat : l = Len(m) /\ DOMAIN m = 1..l
  OBVIOUS
<1>3. PICK longer : longer = Append(m, <<p, n>>)
  OBVIOUS
<1>4. /\ DOMAIN longer = 1..(l + 1)
      /\ \A i \in 1..l : longer[i] = m[i]
      /\ longer[l + 1] = <<p, n>>
  <2>1. <<p, n>> \in R!Row
    BY DEF R!Row
  <2> QED BY <1>2, <1>3, <2>1
<1>5. PICK old, new : old = Lines(m) /\ new = {l + 1} \X (1..n)
  OBVIOUS
<1>6. IsFiniteSet(old)
  <2>1. IsFiniteSet(1..l) /\ IsFiniteSet(1..MaxRows)
    BY <1>1, <1>2, FS_Interval
  <2>2. IsFiniteSet((1..l) \X (1..MaxRows))
    BY <2>1, FS_Product
  <2>3. old \in SUBSET ((1..l) \X (1..MaxRows))
    BY <1>2, <1>5 DEF Lines
  <2> QED BY <2>2, <2>3, FS_Subset
<1>7. IsFiniteSet(new) /\ Cardinality(new) = n
  <2>1. IsFiniteSet({l + 1}) /\ Cardinality({l + 1}) = 1
    BY FS_Singleton
  <2>2. IsFiniteSet(1..n) /\ Cardinality(1..n) = n
    BY FS_Interval
  <2>3. IsFiniteSet({l + 1} \X (1..n)) /\ Cardinality({l + 1} \X (1..n)) = 1 * n
    BY <2>1, <2>2, FS_Product
  <2> QED BY <1>5, <2>3
<1>8. Lines(longer) = old \cup new
  <2>1. ASSUME NEW x \in Lines(longer) PROVE x \in old \cup new
    <3>1. /\ x \in (1..(l + 1)) \X (1..MaxRows) /\ x[2] <= longer[x[1]][2]
      BY <1>4, <2>1 DEF Lines
    <3>2. CASE x[1] = l + 1
      <4>1. x[2] <= n /\ x[2] \in 1..MaxRows /\ x = <<l + 1, x[2]>>
        BY <1>4, <3>1, <3>2
      <4> QED BY <1>5, <4>1
    <3>3. CASE x[1] # l + 1
      <4>1. x[1] \in 1..l /\ x \in (1..l) \X (1..MaxRows)
        BY <1>2, <3>1, <3>3
      <4> QED BY <1>2, <1>4, <1>5, <3>1, <4>1 DEF Lines
    <3> QED BY <3>2, <3>3
  <2>2. ASSUME NEW x \in old PROVE x \in Lines(longer)
    <3>1. x \in (1..l) \X (1..MaxRows) /\ x[2] <= m[x[1]][2]
      BY <1>2, <1>5, <2>2 DEF Lines
    <3>2. x \in (1..(l + 1)) \X (1..MaxRows) /\ x[2] <= longer[x[1]][2]
      BY <1>2, <1>4, <3>1
    <3> QED BY <1>4, <3>2 DEF Lines
  <2>3. ASSUME NEW x \in new PROVE x \in Lines(longer)
    <3>1. x[1] = l + 1 /\ x[2] \in 1..n /\ x \in (1..(l + 1)) \X (1..MaxRows)
      BY <1>1, <1>2, <1>5, <2>3
    <3>2. x[2] <= longer[x[1]][2]
      BY <1>4, <3>1
    <3> QED BY <1>4, <3>1, <3>2 DEF Lines
  <2> QED BY <2>1, <2>2, <2>3
<1>9. old \cap new = {}
  BY <1>2, <1>5 DEF Lines
<1>10. Cardinality(old \cup new) = Cardinality(old) + n
  <2>1. Cardinality(old) \in Nat /\ Cardinality(old \cap new) = 0
    BY <1>6, <1>9, FS_CardinalityType, FS_EmptySet
  <2>2. Cardinality(old \cup new) = Cardinality(old) + Cardinality(new) - Cardinality(old \cap new)
    BY <1>6, <1>7, FS_Union
  <2> QED BY <1>7, <2>1, <2>2
<1>11. Cardinality(old) \in Nat
  BY <1>6, FS_CardinalityType
<1> QED BY <1>3, <1>5, <1>8, <1>10, <1>11, RowsAre

-----------------------------------------------------------------------------
(* What the files tell, f, written by run r: each that an entry of m lists *)
(* holds the rows that come after those of the entries before it.          *)
Tells(f, r, q, m) ==
  \A i \in 1..Len(m) :
    m[i][2] > 0 =>
      /\ <<q, m[i][1]>> \in DOMAIN f
      /\ f[<<q, m[i][1]>>] = [run   |-> r,
                              first |-> R!RowsOf(SubSeq(m, 1, i - 1)) + 1,
                              rows  |-> m[i][2]]

\* What was told stays told while the files that are listed stay.
LEMMA TellsStill ==
  ASSUME NEW f, NEW g, NEW r, NEW q, NEW m, Tells(f, r, q, m),
         \A i \in 1..Len(m) :
           m[i][2] > 0 /\ <<q, m[i][1]>> \in DOMAIN f =>
             <<q, m[i][1]>> \in DOMAIN g /\ g[<<q, m[i][1]>>] = f[<<q, m[i][1]>>]
  PROVE  Tells(g, r, q, m)
BY DEF Tells

\* Nothing is told by an empty manifest.
LEMMA TellsNothing == \A f, r, q : Tells(f, r, q, <<>>)
BY DEF Tells

\* One more entry tells of one more file.
LEMMA TellsMore ==
  ASSUME NEW f, NEW r, NEW q, NEW m \in Seq(R!Row), NEW p \in R!Part, NEW n \in 0..MaxRows,
         Tells(f, r, q, m),
         n > 0 => /\ <<q, p>> \in DOMAIN f
                  /\ f[<<q, p>>] = [run |-> r, first |-> R!RowsOf(m) + 1, rows |-> n]
  PROVE  Tells(f, r, q, Append(m, <<p, n>>))
<1>1. PICK l \in Nat : l = Len(m) /\ DOMAIN m = 1..l
  OBVIOUS
<1>2. PICK longer \in Seq(R!Row) : longer = Append(m, <<p, n>>)
  <2>1. PICK X : X = R!Row
    OBVIOUS
  <2>2. <<p, n>> \in X /\ m \in Seq(X)
    BY <2>1 DEF R!Row
  <2>3. Append(m, <<p, n>>) \in Seq(X)
    BY <2>2
  <2> QED BY <2>1, <2>3, Zenon
<1>3. /\ Len(longer) = l + 1 /\ \A i \in 1..l : longer[i] = m[i]
      /\ longer[l + 1] = <<p, n>>
  <2>1. <<p, n>> \in R!Row
    BY DEF R!Row
  <2> QED BY <1>1, <1>2, <2>1
<1>4. ASSUME NEW i \in 1..(l + 1) PROVE SubSeq(longer, 1, i - 1) = SubSeq(m, 1, i - 1)
  <2>1. i - 1 \in 0..l
    BY <1>1
  <2>2. \A j \in 1..(i - 1) : j \in 1..l /\ longer[j] = m[j]
    BY <1>1, <1>3, <2>1
  <2> QED BY <1>1, <1>2, <1>3, <2>1, <2>2
<1>5. SubSeq(m, 1, l) = m
  BY <1>1
<1>6. ASSUME NEW i \in 1..(l + 1), longer[i][2] > 0
      PROVE  /\ <<q, longer[i][1]>> \in DOMAIN f
             /\ f[<<q, longer[i][1]>>] = [run   |-> r,
                                          first |-> R!RowsOf(SubSeq(longer, 1, i - 1)) + 1,
                                          rows  |-> longer[i][2]]
  <2>1. CASE i \in 1..l
    <3>1. longer[i] = m[i] /\ SubSeq(longer, 1, i - 1) = SubSeq(m, 1, i - 1) /\ i \in 1..Len(m)
      BY <1>1, <1>3, <1>4, <2>1
    <3> QED BY <1>6, <3>1 DEF Tells
  <2>2. CASE i = l + 1
    <3>1. longer[i] = <<p, n>> /\ SubSeq(longer, 1, i - 1) = m
      BY <1>1, <1>3, <1>4, <1>5, <2>2
    <3>2. longer[i][1] = p /\ longer[i][2] = n
      BY <3>1
    <3> QED BY <1>6, <3>1, <3>2, Zenon
  <2> QED BY <1>1, <2>1, <2>2
<1> QED BY <1>2, <1>3, <1>6 DEF Tells

-----------------------------------------------------------------------------
(* No query is on the list of a run twice.                                 *)

\* No export is, and the exports of a profile are among those of all.
LEMMA MainOnce ==
  /\ \A i, j \in 1..Len(R!Main) : R!Main[i] = R!Main[j] => i = j
  /\ Len(R!Main) <= Len(ThinSheets) + Len(FullSheets)
<1>1. /\ ThinSheets \in Seq(Name) /\ FullSheets \in Seq(Name)
      /\ Len(ThinSheets) \in Nat /\ Len(FullSheets) \in Nat
  BY ReportAssumptions DEF R!NameAssumption
<1>2. \A list \in {ThinSheets, FullSheets} : \A i, j \in 1..Len(list) : list[i] = list[j] => i = j
  BY <1>1, ReportAssumptions DEF R!ListAssumption
<1>3. CASE profile = "full"
  BY <1>1, <1>2, <1>3 DEF R!Main
<1>4. CASE profile # "full"
  <2>1. PICK S : S = R!Included
    OBVIOUS
  <2>2. R!Main = Kept(ThinSheets, S)
    BY <1>4, <2>1, SameKept DEF R!Main
  <2>3. \A i, j \in 1..Len(Kept(ThinSheets, S)) : Kept(ThinSheets, S)[i] = Kept(ThinSheets, S)[j] => i = j
    BY <1>1, <1>2, KeptOnce
  <2>4. Len(Kept(ThinSheets, S)) \in Nat /\ Len(Kept(ThinSheets, S)) <= Len(ThinSheets)
    BY <1>1, KeptShorter
  <2>5. PICK those : those = Kept(ThinSheets, S)
    OBVIOUS
  <2>6. \A i, j \in 1..Len(those) : those[i] = those[j] => i = j
    BY <2>3, <2>5, Zenon
  <2>7. Len(those) \in Nat /\ Len(those) <= Len(ThinSheets) /\ R!Main = those
    BY <2>2, <2>4, <2>5, Zenon
  <2> QED BY <1>1, <2>6, <2>7
<1> QED BY <1>3, <1>4

\* Nor is any query.
LEMMA PlanOnce == \A i, j \in 1..Len(R!Plan) : R!Plan[i] = R!Plan[j] => i = j
<1>1. PICK m \in Nat, k \in Nat \ {0}, n \in Nat :
        m = Len(R!Main) /\ k = Len(Samples) /\ n = Len(R!Plan)
  BY PlanParts
<1>2. PICK plan, first, second : plan = R!Plan /\ first = R!Main /\ second = Samples
  OBVIOUS
<1>3. /\ \A i, j \in 1..m : first[i] = first[j] => i = j
      /\ \A i, j \in 1..k : second[i] = second[j] => i = j
  <2>1. \A i, j \in DOMAIN Samples : Samples[i] = Samples[j] => i = j
    BY ReportAssumptions DEF R!ListAssumption
  <2>2. DOMAIN Samples = 1..k
    BY <1>1, PlanParts
  <2> QED BY <1>1, <1>2, <2>1, <2>2, MainOnce
<1>4. ASSUME NEW i \in 1..n
      PROVE  \/ i \in 1..m /\ plan[i] = <<"export", first[i]>>
             \/ i > m /\ i - m \in 1..k /\ plan[i] = <<"sample", second[i - m]>>
  BY <1>1, <1>2, PlanParts
<1>5. ASSUME NEW i \in 1..n
      PROVE  \/ i \in 1..m /\ plan[i][1] = "export" /\ plan[i][2] = first[i]
             \/ i > m /\ i - m \in 1..k /\ plan[i][1] = "sample" /\ plan[i][2] = second[i - m]
  <2>1. CASE i \in 1..m /\ plan[i] = <<"export", first[i]>>
    <3>1. PICK pair, x : pair = plan[i] /\ x = first[i]
      OBVIOUS
    <3>2. pair = <<"export", x>>
      BY <2>1, <3>1, Zenon
    <3>3. pair[1] = "export" /\ pair[2] = x
      BY <3>2
    <3> QED BY <2>1, <3>1, <3>3, Zenon
  <2>2. CASE i > m /\ i - m \in 1..k /\ plan[i] = <<"sample", second[i - m]>>
    <3>1. PICK pair, x : pair = plan[i] /\ x = second[i - m]
      OBVIOUS
    <3>2. pair = <<"sample", x>>
      BY <2>2, <3>1, Zenon
    <3>3. pair[1] = "sample" /\ pair[2] = x
      BY <3>2
    <3> QED BY <2>2, <3>1, <3>3, Zenon
  <2> QED BY <1>4, <2>1, <2>2
<1>6. ASSUME NEW i \in 1..n, NEW j \in 1..n, plan[i] = plan[j] PROVE i = j
  <2>0. plan[i][1] = plan[j][1] /\ plan[i][2] = plan[j][2]
    BY <1>6, Zenon
  <2>1. CASE i \in 1..m /\ plan[i][1] = "export" /\ plan[i][2] = first[i]
    <3>1. j \in 1..m /\ plan[j][2] = first[j]
      BY <1>5, <2>0, <2>1
    <3> QED BY <1>3, <2>0, <2>1, <3>1
  <2>2. CASE i > m /\ i - m \in 1..k /\ plan[i][1] = "sample" /\ plan[i][2] = second[i - m]
    <3>1. j > m /\ j - m \in 1..k /\ plan[j][2] = second[j - m]
      BY <1>5, <2>0, <2>2
    <3>2. i - m = j - m
      BY <1>3, <2>0, <2>2, <3>1
    <3> QED BY <1>1, <2>2, <3>1, <3>2
  <2> QED BY <1>5, <2>1, <2>2
<1> QED BY <1>1, <1>2, <1>6, Zenon

\* No list is longer than that of all queries.
LEMMA PlanShort == Len(R!Plan) \in Nat /\ Len(R!Plan) <= Len(ThinSheets \o FullSheets \o Samples)
<1>1. ThinSheets \in Seq(Name) /\ FullSheets \in Seq(Name) /\ Samples \in Seq(Name)
  BY ReportAssumptions DEF R!NameAssumption
<1>2. Len(ThinSheets \o FullSheets \o Samples) = Len(ThinSheets) + Len(FullSheets) + Len(Samples)
  BY <1>1
<1>3. Len(ThinSheets) \in Nat /\ Len(FullSheets) \in Nat
  BY <1>1
<1> QED BY <1>2, <1>3, MainOnce, PlanParts

-----------------------------------------------------------------------------
(* What the folder tells of the run.                                       *)

\* The rows of a query are being written, or a full part is being left.
Rolling == sheetStep \in {"rows", "roll"}

\* The values of the run's own variables.  The list belongs to the profile, so the
\* place in it outlives the run; only a run that is under way goes through it.
RunTypes ==
  /\ sheetRun \in 0..MaxRuns /\ profile \in R!Profile /\ platform \in R!Source
  /\ size \in 0..MaxRows /\ sheetCancel \in BOOLEAN
  /\ locked \in SUBSET (({"csv"} \X R!File) \cup ({"manifest"} \X R!Query))
  /\ handler \in {"none", "live", "dead"} /\ (handler = "live" => Calling)
  /\ sheetStep \in {"idle", "next", "open", "rows", "roll", "finish"}
  /\ step \in 1..(Len(R!Plan) + 1) /\ timeouts \in 0..MaxTimeouts
  /\ DOMAIN index \subseteq Name /\ DOMAIN caseIndex \subseteq Name
  /\ outcome \in {"none", "running", "ok", "suppressed", "cancelled", "failed", "crashed"}
  /\ sheetStep # "idle" => outcome = "running" /\ sheetRun # 0

\* Sheets with their contents.
Typed(f) == DOMAIN f \subseteq R!File /\ \A x \in DOMAIN f : f[x] \in R!Content

\* The values of what lies in the folder, and of what the run knows of its queries.
DiskTypes ==
  /\ Typed(sheets)
  /\ DOMAIN manifests \subseteq R!Query /\ \A q \in DOMAIN manifests : manifests[q] \in Seq(R!Row)
  /\ notices \subseteq R!Query
  /\ DOMAIN queries \subseteq R!Query
  /\ \A q \in DOMAIN queries : queries[q] \in {"written", "timed out", "cancelled", "skipped", "reused"}

\* A call has listed the parts before the one it writes, each with its rows, and
\* that one holds the rows after those.
PartsInv ==
  /\ split \in BOOLEAN
  /\ ~Rolling => listed = <<>>
  /\ Rolling =>
       /\ part \in Nat \ {0} /\ inPart \in Nat /\ total \in Nat /\ listed \in Seq(R!Row)
       /\ inPart <= ChunkRows /\ total <= size /\ part - 1 <= total - inPart
       /\ sheetStep = "roll" => total < size /\ inPart = ChunkRows
       /\ ~split => part = 1 /\ listed = <<>> /\ inPart = total
       /\ R!Out \in DOMAIN sheets /\ sheets[R!Out] = R!Holding
       /\ R!RowsOf(listed) = total - inPart
       /\ Tells(sheets, sheetRun, R!Current, listed)
       /\ \A i \in 1..Len(listed) : listed[i][1] \in 1..(part - 1)

\* What has ended comes before what the run is at.
EndedInv == Working => \A q \in DOMAIN queries :
                         \E i \in 1..Len(R!Plan) : i < step /\ R!Plan[i] = q

\* A manifest tells of its query what this run wrote, and all of it, or else it can
\* be told that there was more.
Told(q) == /\ q \in DOMAIN manifests
           /\ Tells(sheets, sheetRun, q, manifests[q])
           /\ R!RowsOf(manifests[q]) = size \/ q \in notices \/ sheetCancel

ToldInv == \A q \in R!Finished : Told(q)

\* A folder that only one run wrote to, and that run is known, holds the manifests of
\* the queries that have ended, and the notices of those that were timed out.
FirstInv ==
  /\ outcome = "crashed" => DOMAIN queries = {}
  /\ sheetRun = 0 => DOMAIN manifests = {} /\ notices = {}
  /\ sheetRun = 1 /\ outcome # "crashed" =>
       /\ DOMAIN manifests \subseteq DOMAIN queries
       /\ \A q \in notices : q \in DOMAIN queries /\ queries[q] = "timed out"

\* Nothing touches the folder after a successful end until the next run.
AgreeInv == outcome = "ok" => /\ sheetStep = "idle"
                              /\ index = R!Indexed /\ caseIndex = R!Indexed

FolderInv == RunTypes /\ DiskTypes /\ PartsInv /\ EndedInv /\ ToldInv /\ FirstInv /\ AgreeInv

-----------------------------------------------------------------------------
(* The kinds of steps, for what is known of the queries that have ended.   *)

\* Only sheets of the current query are written.
Apart == \A x, p : x # R!Current =>
           /\ <<x, p>> \in DOMAIN sheets' <=> <<x, p>> \in DOMAIN sheets
           /\ <<x, p>> \in DOMAIN sheets => sheets'[<<x, p>>] = sheets[<<x, p>>]

\* No query ends: the run goes on, or comes to its end.
Quiet ==
  /\ UNCHANGED R!setting /\ UNCHANGED <<queries, notices, manifests>>
  /\ sheetCancel => sheetCancel'
  /\ sheetStep # "idle" /\ outcome' # "crashed"
  /\ UNCHANGED sheets \/ (Working /\ Apart)
  /\ Working' => Working /\ step' = step

\* What was known of the queries is forgotten: a run begins, or the process dies.
Fresh ==
  /\ queries' = <<>> /\ UNCHANGED <<sheets, manifests, notices>>
  /\ \/ sheetRun' = sheetRun + 1 /\ outcome' # "crashed"
     \/ sheetRun' = sheetRun /\ outcome' = "crashed"

\* The current query ends, and rows is its manifest, unless it has none or the one
\* that is there is open in another program.
Ending(how, rows) ==
  /\ Working /\ R!Return(how) /\ UNCHANGED R!setting /\ UNCHANGED <<sheetCancel, outcome>>
  /\ how \in {"written", "timed out", "cancelled", "skipped", "reused"}
  /\ Apart
  /\ \/ notices' = notices
     \/ how = "timed out" /\ notices' = notices \cup {R!Current}
  /\ \/ /\ manifests' = manifests
        /\ how \in {"skipped", "reused"} \/ <<"manifest", R!Current>> \in locked
     \/ /\ manifests' = R!Put(manifests, R!Current, rows)
        /\ rows \in Seq(R!Row)
        /\ Tells(sheets', sheetRun, R!Current, rows)
        /\ R!RowsOf(rows) = size \/ R!Current \in notices' \/ sheetCancel

\* The query the run is at has not ended.
LEMMA CurrentNew == ReportInv /\ EndedInv /\ Working => R!Current \notin DOMAIN queries
<1> SUFFICES ASSUME ReportInv, EndedInv, Working, R!Current \in DOMAIN queries PROVE FALSE
  OBVIOUS
<1>1. PICK i \in 1..Len(R!Plan) : i < step /\ R!Plan[i] = R!Current
  BY DEF EndedInv
<1>2. step \in 1..Len(R!Plan) /\ R!Plan[step] = R!Current
  BY DEF ReportInv, PlanInv, R!Current
<1>3. i = step
  BY <1>1, <1>2, PlanOnce
<1> QED BY <1>1, <1>2, <1>3, PlanFacts DEF PlanInOrder

\* The current query is one.
LEMMA CurrentIs == ReportInv /\ Working => R!Current \in R!Query
BY CurrentQuery DEF R!Query

\* What was told of a query is still told when the sheets of another are written.
LEMMA StillTold ==
  ASSUME Apart, NEW q, q # R!Current, NEW m, Tells(sheets, sheetRun, q, m)
  PROVE  Tells(sheets', sheetRun, q, m)
BY TellsStill DEF Apart

\* While no query ends, what is known of those that have stays true.
LEMMA QuietKeeps ==
  ASSUME ReportInv, RunTypes, EndedInv, ToldInv, FirstInv, Quiet
  PROVE  EndedInv' /\ ToldInv' /\ FirstInv'
<1>1. EndedInv'
  <2> SUFFICES ASSUME Working' PROVE \A q \in DOMAIN queries' :
                         \E i \in 1..Len(R!Plan)' : i < step' /\ R!Plan[i]' = q
    BY DEF EndedInv
  <2>1. Working /\ step' = step /\ queries' = queries /\ R!Plan' = R!Plan
    BY SamePlan DEF Quiet
  <2> QED BY <2>1 DEF EndedInv
<1>2. ToldInv'
  <2> SUFFICES ASSUME NEW q \in R!Finished' PROVE Told(q)'
    BY DEF ToldInv
  <2>1. /\ sheetRun' = sheetRun /\ size' = size /\ locked' = locked
        /\ queries' = queries /\ notices' = notices /\ manifests' = manifests
        /\ sheetCancel => sheetCancel'
    BY DEF Quiet, R!setting
  <2>2. q \in R!Finished /\ q \in DOMAIN queries
    BY <2>1 DEF R!Finished
  <2>3. Told(q)
    BY <2>2 DEF ToldInv
  <2>4. Tells(sheets', sheetRun, q, manifests[q])
    <3>1. CASE UNCHANGED sheets
      BY <2>3, <3>1 DEF Told
    <3>2. CASE Working /\ Apart
      <4>1. q # R!Current
        BY <2>2, <3>2, CurrentNew
      <4> QED BY <2>3, <3>2, <4>1, StillTold DEF Told
    <3> QED BY <3>1, <3>2 DEF Quiet
  <2> QED BY <2>1, <2>3, <2>4 DEF Told
<1>3. FirstInv'
  <2>1. outcome # "crashed"
    BY DEF Quiet, RunTypes
  <2> QED BY <2>1 DEF FirstInv, Quiet, R!setting
<1> QED BY <1>1, <1>2, <1>3

\* Of no query nothing is known.
LEMMA FreshKeeps ==
  ASSUME RunTypes, FirstInv, Fresh
  PROVE  EndedInv' /\ ToldInv' /\ FirstInv'
<1>1. DOMAIN queries' = {}
  BY DEF Fresh
<1>2. EndedInv' /\ ToldInv'
  BY <1>1 DEF EndedInv, ToldInv, R!Finished
<1>3. FirstInv'
  <2>1. sheetRun \in Nat
    BY ReportAssumptions DEF RunTypes, R!SizeAssumption
  <2>2. UNCHANGED <<sheets, manifests, notices>>
    BY DEF Fresh
  <2>3. CASE sheetRun' = sheetRun + 1 /\ outcome' # "crashed"
    <3>1. sheetRun' # 0 /\ (sheetRun' = 1 => sheetRun = 0)
      BY <2>1, <2>3
    <3>2. sheetRun' = 1 => DOMAIN manifests = {} /\ notices = {}
      BY <3>1 DEF FirstInv
    <3> QED BY <2>2, <2>3, <3>1, <3>2 DEF FirstInv
  <2>4. CASE sheetRun' = sheetRun /\ outcome' = "crashed"
    BY <1>1, <2>2, <2>4 DEF FirstInv
  <2> QED BY <2>3, <2>4 DEF Fresh
<1> QED BY <1>2, <1>3

\* What a query that ends leaves is known of it, and nothing else changes.
LEMMA EndingKeeps ==
  ASSUME ReportInv, RunTypes, EndedInv, ToldInv, FirstInv, NEW how, NEW rows, Ending(how, rows)
  PROVE  EndedInv' /\ ToldInv' /\ FirstInv'
<1>1. PICK q : q = R!Current
  OBVIOUS
<1>2. q \notin DOMAIN queries
  BY <1>1, CurrentNew DEF Ending
<1>3. /\ DOMAIN queries' = DOMAIN queries \cup {q}
      /\ queries'[q] = how
      /\ \A x \in DOMAIN queries : x # q => queries'[x] = queries[x]
  BY <1>1 DEF Ending, R!Return, R!Put
<1>4. /\ sheetRun' = sheetRun /\ size' = size /\ locked' = locked /\ sheetCancel' = sheetCancel
      /\ outcome' = outcome
  BY DEF Ending, R!setting
<1>5. /\ \A x \in DOMAIN manifests : x # q => x \in DOMAIN manifests' /\ manifests'[x] = manifests[x]
      /\ DOMAIN manifests' \subseteq DOMAIN manifests \cup {q}
      /\ notices \subseteq notices' /\ notices' \subseteq notices \cup {q}
      /\ q \in notices' => q \in notices \/ how = "timed out"
  BY <1>1 DEF Ending, R!Put
<1>6. EndedInv'
  <2>1. PICK n \in Nat : n = Len(R!Plan)
    BY PlanFacts DEF PlanInOrder
  <2>2. PICK plan : plan = R!Plan
    OBVIOUS
  <2>3. R!Plan' = plan /\ step' = step + 1
    BY <2>2 DEF Ending, R!setting, R!Plan, R!Main, R!Included, R!Supporting, R!Return
  <2>4. step \in 1..n /\ plan[step] = q
    BY <1>1, <2>1, <2>2 DEF Ending, ReportInv, PlanInv, R!Current
  <2>5. \A x \in DOMAIN queries : \E i \in 1..n : i < step /\ plan[i] = x
    BY <2>1, <2>2 DEF EndedInv, Ending
  <2>6. \A x \in DOMAIN queries' : \E i \in 1..n : i < step + 1 /\ plan[i] = x
    <3> SUFFICES ASSUME NEW x \in DOMAIN queries' PROVE \E i \in 1..n : i < step + 1 /\ plan[i] = x
      OBVIOUS
    <3>1. CASE x = q
      <4>1. step < step + 1
        BY <2>4
      <4> QED BY <2>4, <3>1, <4>1
    <3>2. CASE x # q
      <4>1. PICK i \in 1..n : i < step /\ plan[i] = x
        BY <1>3, <2>5, <3>2
      <4>2. i < step + 1
        BY <2>4, <4>1
      <4> QED BY <4>1, <4>2
    <3> QED BY <3>1, <3>2
  <2> QED BY <2>1, <2>2, <2>3, <2>6 DEF EndedInv
<1>7. ToldInv'
  <2> SUFFICES ASSUME NEW x \in R!Finished' PROVE Told(x)'
    BY DEF ToldInv
  <2>0. x \in DOMAIN queries' /\ <<"manifest", x>> \notin locked
        /\ queries'[x] \in {"written", "timed out", "cancelled"}
    BY <1>4 DEF R!Finished
  <2>1. CASE x = q
    <3>1. how \in {"written", "timed out", "cancelled"}
      BY <1>3, <2>0, <2>1
    <3>2. /\ manifests' = R!Put(manifests, q, rows) /\ Tells(sheets', sheetRun, q, rows)
          /\ R!RowsOf(rows) = size \/ q \in notices' \/ sheetCancel
      BY <1>1, <2>0, <2>1, <3>1 DEF Ending
    <3>3. q \in DOMAIN manifests' /\ manifests'[q] = rows
      BY <3>2 DEF R!Put
    <3> QED BY <1>4, <2>1, <3>2, <3>3 DEF Told
  <2>2. CASE x # q
    <3>1. x \in R!Finished
      BY <1>3, <2>0, <2>2 DEF R!Finished
    <3>2. Told(x)
      BY <3>1 DEF ToldInv
    <3>3. x \in DOMAIN manifests' /\ manifests'[x] = manifests[x]
      BY <1>5, <2>2, <3>2 DEF Told
    <3>4. Tells(sheets', sheetRun, x, manifests[x])
      BY <1>1, <2>2, <3>2, StillTold DEF Ending, Told
    <3> QED BY <1>4, <1>5, <3>2, <3>3, <3>4 DEF Told
  <2> QED BY <2>1, <2>2
<1>8. FirstInv'
  <2>1. outcome = "running" /\ sheetRun # 0
    BY DEF Ending, Working, RunTypes
  <2>2. ASSUME sheetRun = 1
        PROVE  /\ DOMAIN manifests' \subseteq DOMAIN queries'
               /\ \A x \in notices' : x \in DOMAIN queries' /\ queries'[x] = "timed out"
    <3>1. /\ DOMAIN manifests \subseteq DOMAIN queries
          /\ \A x \in notices : x \in DOMAIN queries /\ queries[x] = "timed out"
      BY <2>1, <2>2 DEF FirstInv
    <3> QED BY <1>2, <1>3, <1>5, <3>1
  <2> QED BY <1>4, <2>1, <2>2 DEF FirstInv
<1> QED BY <1>6, <1>7, <1>8

\* Nothing happens to what was read of the folder, while the run goes on.
LEMMA NotAgreed == outcome' # "ok" => AgreeInv'
BY DEF AgreeInv

\* The run's own variables while it goes on.
LEMMA RunGoesOn ==
  ASSUME RunTypes, UNCHANGED R!setting, UNCHANGED R!report,
         sheetCancel' \in BOOLEAN, handler' \in {"none", "live", "dead"},
         handler' = "live" => Calling',
         sheetStep' \in {"idle", "next", "open", "rows", "roll", "finish"},
         step' \in 1..(Len(R!Plan) + 1), timeouts' \in 0..MaxTimeouts,
         outcome' \in {"none", "running", "ok", "suppressed", "cancelled", "failed", "crashed"},
         sheetStep' # "idle" => sheetStep # "idle" /\ outcome' = outcome
  PROVE  RunTypes'
<1>1. PICK n : n = Len(R!Plan) + 1
  OBVIOUS
<1>2. (Len(R!Plan) + 1)' = n
  BY <1>1 DEF R!setting, R!Plan, R!Main, R!Included, R!Supporting
<1>3. step' \in 1..n
  BY <1>1
<1> QED BY <1>2, <1>3 DEF RunTypes, R!setting, R!report

\* What the variables of a call are worth outside of it.
LEMMA PartsReset ==
  ASSUME ReportInv, PartsInv, ~Rolling', R!Reset \/ (~Rolling /\ UNCHANGED R!call)
  PROVE  PartsInv'
BY DEF PartsInv, R!Reset, R!call

\* The values in the folder while no query ends.
LEMMA QuietFolder ==
  ASSUME ReportInv, FolderInv, Quiet, Typed(sheets'), RunTypes', PartsInv', AgreeInv'
  PROVE  FolderInv'
<1>1. EndedInv' /\ ToldInv' /\ FirstInv'
  BY QuietKeeps DEF FolderInv
<1>2. DiskTypes'
  BY DEF FolderInv, DiskTypes, Quiet, Typed
<1> QED BY <1>1, <1>2 DEF FolderInv

\* The values in the folder when a run begins or the process dies.
LEMMA FreshFolder ==
  ASSUME FolderInv, Fresh, RunTypes', PartsInv', AgreeInv'
  PROVE  FolderInv'
<1>1. EndedInv' /\ ToldInv' /\ FirstInv'
  BY FreshKeeps DEF FolderInv
<1>2. DOMAIN queries' = {}
  BY DEF Fresh
<1>3. DiskTypes'
  BY <1>2 DEF FolderInv, DiskTypes, Fresh, Typed
<1> QED BY <1>1, <1>3 DEF FolderInv

\* The values in the folder when a query ends.
LEMMA EndingFolder ==
  ASSUME ReportInv, FolderInv, NEW how, NEW rows, Ending(how, rows), Typed(sheets'),
         UNCHANGED R!report, timeouts' \in 0..MaxTimeouts
  PROVE  FolderInv'
<1>1. EndedInv' /\ ToldInv' /\ FirstInv'
  BY EndingKeeps DEF FolderInv
<1>2. PICK n \in Nat : n = Len(R!Plan)
  BY PlanFacts DEF PlanInOrder
<1>3. step \in 1..n /\ step' = step + 1 /\ handler' = "none" /\ sheetStep' \in {"next", "finish"}
  <2>1. step \in 1..n
    BY <1>2 DEF Ending, ReportInv, PlanInv
  <2> QED BY <2>1 DEF Ending, R!Return
<1>4. RunTypes'
  <2>1. step' \in 1..(n + 1)
    BY <1>2, <1>3
  <2>2. sheetStep # "idle" /\ outcome' = outcome /\ sheetCancel' \in BOOLEAN
    BY DEF Ending, Working, FolderInv, RunTypes
  <2>3. outcome' \in {"none", "running", "ok", "suppressed", "cancelled", "failed", "crashed"}
    BY <2>2 DEF FolderInv, RunTypes
  <2>4. RunTypes /\ UNCHANGED R!setting /\ (handler' = "live" => Calling')
    BY <1>3 DEF FolderInv, Ending
  <2> QED BY <1>2, <1>3, <2>1, <2>2, <2>3, <2>4, RunGoesOn
<1>5. PartsInv'
  <2>1. ~Rolling' /\ R!Reset
    BY <1>3 DEF Rolling, Ending, R!Return
  <2> QED BY <2>1, PartsReset DEF FolderInv
<1>6. AgreeInv'
  BY NotAgreed DEF Ending, Working, FolderInv, RunTypes
<1>7. DiskTypes'
  <2>1. PICK q \in R!Query : q = R!Current
    BY CurrentIs DEF Ending
  <2>2. /\ DOMAIN queries' = DOMAIN queries \cup {q}
        /\ queries'[q] = how
        /\ \A x \in DOMAIN queries : x # q => queries'[x] = queries[x]
    BY <2>1 DEF Ending, R!Return, R!Put
  <2>3. how \in {"written", "timed out", "cancelled", "skipped", "reused"}
    BY DEF Ending
  <2>4. notices' \subseteq R!Query
    BY <2>1 DEF Ending, FolderInv, DiskTypes
  <2>5. DOMAIN manifests' \subseteq R!Query /\ \A x \in DOMAIN manifests' : manifests'[x] \in Seq(R!Row)
    <3>1. CASE manifests' = manifests
      BY <3>1 DEF FolderInv, DiskTypes
    <3>2. CASE manifests' = R!Put(manifests, R!Current, rows) /\ rows \in Seq(R!Row)
      <4>1. /\ DOMAIN manifests' = DOMAIN manifests \cup {q}
            /\ \A x \in DOMAIN manifests' : manifests'[x] = IF x = q THEN rows ELSE manifests[x]
        BY <2>1, <3>2 DEF R!Put
      <4> QED BY <2>1, <3>2, <4>1 DEF FolderInv, DiskTypes
    <3> QED BY <3>1, <3>2 DEF Ending
  <2>6. DOMAIN queries' \subseteq R!Query
    BY <2>1, <2>2 DEF FolderInv, DiskTypes
  <2>7. \A x \in DOMAIN queries' : queries'[x] \in {"written", "timed out", "cancelled", "skipped", "reused"}
    <3> SUFFICES ASSUME NEW x \in DOMAIN queries'
                 PROVE  queries'[x] \in {"written", "timed out", "cancelled", "skipped", "reused"}
      OBVIOUS
    <3>1. CASE x = q
      BY <2>2, <2>3, <3>1
    <3>2. CASE x # q
      <4>1. x \in DOMAIN queries /\ queries'[x] = queries[x]
        BY <2>2, <3>2
      <4> QED BY <4>1 DEF FolderInv, DiskTypes
    <3> QED BY <3>1, <3>2
  <2> QED BY <2>4, <2>5, <2>6, <2>7 DEF DiskTypes, Typed
<1> QED BY <1>1, <1>4, <1>5, <1>6, <1>7 DEF FolderInv

-----------------------------------------------------------------------------
(* What a call writes.                                                     *)

\* The numbers of a call, and what is in the part it writes.
LEMMA CallBounds ==
  ASSUME RunTypes, PartsInv, Rolling
  PROVE  /\ MaxRows \in Nat /\ ChunkRows \in Nat \ {0} /\ size \in 0..MaxRows
         /\ part \in 1..(MaxRows + 1) /\ part \in R!Part /\ inPart \in 0..MaxRows
         /\ total \in 0..MaxRows /\ sheetRun \in 1..MaxRuns /\ inPart <= total
         /\ sheetStep = "roll" => /\ total + 1 \in 1..MaxRows /\ part + 1 \in R!Part
                                  /\ part + 1 \in 1..(MaxRows + 1) /\ part <= total
<1>1. MaxRows \in Nat /\ ChunkRows \in Nat \ {0} /\ MaxRuns \in Nat
  BY ReportAssumptions DEF R!SizeAssumption
<1>2. /\ size \in 0..MaxRows /\ part \in Nat \ {0} /\ inPart \in Nat /\ total \in Nat
      /\ inPart <= ChunkRows /\ total <= size /\ part - 1 <= total - inPart
      /\ sheetStep = "roll" => total < size /\ inPart = ChunkRows
  BY DEF RunTypes, PartsInv
<1>3. sheetRun \in 1..MaxRuns
  BY <1>1 DEF RunTypes, Rolling
<1>4. inPart <= total /\ part \in 1..(MaxRows + 1) /\ total \in 0..MaxRows /\ inPart \in 0..MaxRows
  BY <1>1, <1>2
<1>5. sheetStep = "roll" => total + 1 \in 1..MaxRows /\ part + 1 \in 1..(MaxRows + 1) /\ part <= total
  BY <1>1, <1>2
<1> QED BY <1>1, <1>2, <1>3, <1>4, <1>5 DEF R!Part

\* What a part can hold.
LEMMA ContentIs ==
  ASSUME NEW a \in 1..MaxRuns, NEW b \in 1..(MaxRows + 1), NEW c \in 0..MaxRows
  PROVE  [run |-> a, first |-> b, rows |-> c] \in R!Content
BY DEF R!Content

\* One more sheet.
LEMMA PutTyped ==
  ASSUME NEW f, Typed(f), NEW z \in R!File, NEW y \in R!Content
  PROVE  Typed(R!Put(f, z, y))
BY DEF Typed, R!Put

\* Writing a sheet of the call writes none of another query.
LEMMA PutApart ==
  ASSUME NEW p, NEW y, sheets' = R!Put(sheets, <<R!Current, p>>, y)
  PROVE  Apart
<1>1. \A x, k : x # R!Current => <<x, k>> # <<R!Current, p>>
  OBVIOUS
<1> QED BY <1>1 DEF Apart, R!Put

\* What renaming the first part does to the sheets.
LEMMA RenamedSheets ==
  /\ split => R!Renamed = sheets
  /\ ~split =>
       /\ DOMAIN R!Renamed = (DOMAIN sheets \ {<<R!Current, 0>>}) \cup {<<R!Current, 1>>}
       /\ \A f \in DOMAIN sheets \ {<<R!Current, 0>>} :
            f # <<R!Current, 1>> => R!Renamed[f] = sheets[f]
       /\ R!Renamed[<<R!Current, 1>>] = sheets[<<R!Current, 0>>]
<1>1. CASE split
  BY <1>1 DEF R!Renamed
<1>2. CASE ~split
  <2>1. PICK less : less = [f \in DOMAIN sheets \ {<<R!Current, 0>>} |-> sheets[f]]
    OBVIOUS
  <2>2. R!Renamed = R!Put(less, <<R!Current, 1>>, sheets[<<R!Current, 0>>])
    BY <1>2, <2>1 DEF R!Renamed, R!FirstPart
  <2> QED BY <1>2, <2>1, <2>2 DEF R!Put
<1> QED BY <1>1, <1>2

\* Nor does renaming the first part.
LEMMA RenamedApart ==
  /\ \A x, p : x # R!Current =>
       /\ <<x, p>> \in DOMAIN R!Renamed <=> <<x, p>> \in DOMAIN sheets
       /\ <<x, p>> \in DOMAIN sheets => R!Renamed[<<x, p>>] = sheets[<<x, p>>]
  /\ UNCHANGED sheets => Apart
<1>1. ASSUME NEW x, NEW p, x # R!Current
      PROVE  /\ <<x, p>> \in DOMAIN R!Renamed <=> <<x, p>> \in DOMAIN sheets
             /\ <<x, p>> \in DOMAIN sheets => R!Renamed[<<x, p>>] = sheets[<<x, p>>]
  <2>1. <<x, p>> # <<R!Current, 0>> /\ <<x, p>> # <<R!Current, 1>>
    BY <1>1
  <2>2. CASE split
    BY <2>2, RenamedSheets
  <2>3. CASE ~split
    BY <2>1, <2>3, RenamedSheets
  <2> QED BY <2>2, <2>3
<1>2. UNCHANGED sheets => Apart
  BY DEF Apart
<1> QED BY <1>1, <1>2

\* A part that is full is listed with the rows it holds, whatever its name is now.
LEMMA Rolled ==
  ASSUME ReportInv, FolderInv, sheetStep = "roll",
         NEW CONSTANT q, q = R!Current, NEW CONSTANT rows, rows = Append(listed, R!PartRow)
  PROVE  /\ Typed(R!Renamed)
         /\ rows \in Seq(R!Row) /\ R!RowsOf(rows) = total
         /\ Tells(R!Renamed, sheetRun, q, rows)
         /\ \A i \in 1..Len(rows) : rows[i][1] \in 1..part
<1>1. Working /\ Rolling /\ RunTypes /\ DiskTypes /\ PartsInv
  BY DEF FolderInv, Working, Rolling
<1>2. q \in R!Query
  BY <1>1, CurrentIs
<1>3. /\ part \in 1..(MaxRows + 1) /\ part \in R!Part /\ inPart \in 0..MaxRows /\ total \in 0..MaxRows
      /\ MaxRows \in Nat
  BY <1>1, CallBounds
<1>4. /\ listed \in Seq(R!Row) /\ R!RowsOf(listed) = total - inPart
      /\ Tells(sheets, sheetRun, q, listed)
      /\ \A i \in 1..Len(listed) : listed[i][1] \in 1..(part - 1)
      /\ ~split => part = 1 /\ listed = <<>> /\ inPart = total
      /\ R!Out \in DOMAIN sheets /\ sheets[R!Out] = R!Holding
  BY <1>1 DEF PartsInv
<1>5. rows = Append(listed, <<part, inPart>>)
  BY DEF R!PartRow
<1>6. Typed(R!Renamed)
  <2>1. CASE split
    BY <1>1, <2>1, RenamedSheets DEF DiskTypes
  <2>2. CASE ~split
    <3>1. <<q, 0>> \in DOMAIN sheets
      BY <1>4, <2>2 DEF R!Out
    <3>2. <<q, 1>> \in R!File
      <4>1. 1 \in R!Part
        BY <1>3 DEF R!Part
      <4> QED BY <1>2, <4>1 DEF R!File
    <3>3. DOMAIN R!Renamed \subseteq R!File
      BY <1>1, <2>2, <3>2, RenamedSheets DEF DiskTypes, Typed
    <3>4. ASSUME NEW f \in DOMAIN R!Renamed PROVE R!Renamed[f] \in R!Content
      <4>1. CASE f = <<q, 1>>
        BY <1>1, <2>2, <3>1, <4>1, RenamedSheets DEF DiskTypes, Typed
      <4>2. CASE f # <<q, 1>>
        BY <1>1, <2>2, <4>2, RenamedSheets DEF DiskTypes, Typed
      <4> QED BY <4>1, <4>2
    <3> QED BY <3>3, <3>4 DEF Typed
  <2> QED BY <2>1, <2>2
<1>7. <<q, part>> \in DOMAIN R!Renamed /\ R!Renamed[<<q, part>>] = R!Holding
  <2>1. CASE split
    BY <1>4, <2>1, RenamedSheets DEF R!Out
  <2>2. CASE ~split
    BY <1>4, <2>2, RenamedSheets DEF R!Out
  <2> QED BY <2>1, <2>2
<1>8. Tells(R!Renamed, sheetRun, q, listed)
  <2>1. CASE split
    BY <1>4, <2>1, RenamedSheets
  <2>2. CASE ~split
    BY <1>4, <2>2, TellsNothing
  <2> QED BY <2>1, <2>2
<1>9. Tells(R!Renamed, sheetRun, q, Append(listed, <<part, inPart>>))
  <2>1. R!Holding = [run |-> sheetRun, first |-> R!RowsOf(listed) + 1, rows |-> inPart]
    BY <1>4 DEF R!Holding
  <2> QED BY <1>3, <1>4, <1>7, <1>8, <2>1, TellsMore
<1>10. R!RowsOf(Append(listed, <<part, inPart>>)) = total
  <2>1. R!RowsOf(Append(listed, <<part, inPart>>)) = R!RowsOf(listed) + inPart
    BY <1>3, <1>4, RowsAppended
  <2> QED BY <1>3, <1>4, <2>1
<1>11. PICK X : X = R!Row
  OBVIOUS
<1>12. listed \in Seq(X) /\ <<part, inPart>> \in X
  BY <1>3, <1>4, <1>11 DEF R!Row
<1>13. rows \in Seq(X)
  BY <1>5, <1>12
<1>14. ASSUME NEW i \in 1..Len(rows) PROVE rows[i][1] \in 1..part
  <2>1. PICK n \in Nat : n = Len(listed)
    BY <1>12
  <2>2. Len(rows) = n + 1 /\ rows[n + 1] = <<part, inPart>> /\ \A j \in 1..n : rows[j] = listed[j]
    BY <1>5, <1>12, <2>1
  <2>3. CASE i \in 1..n
    <3>1. rows[i] = listed[i] /\ listed[i][1] \in 1..(part - 1)
      BY <1>4, <2>1, <2>2, <2>3
    <3>2. rows[i][1] \in 1..(part - 1)
      BY <3>1, Zenon
    <3> QED BY <1>3, <3>2
  <2>4. CASE i = n + 1
    <3>1. rows[i] = <<part, inPart>>
      BY <2>2, <2>4
    <3> QED BY <1>3, <3>1
  <2> QED BY <2>1, <2>2, <2>3, <2>4
<1> QED BY <1>5, <1>6, <1>9, <1>10, <1>11, <1>13, <1>14

-----------------------------------------------------------------------------
(* The steps.                                                              *)

\* The run of a state in which it is under way.
LEMMA UnderWay == FolderInv /\ sheetStep # "idle" => outcome = "running" /\ sheetRun # 0
BY DEF FolderInv, RunTypes

\* A list is not empty.
LEMMA FirstPlace == 1 \in 1..(Len(R!Plan) + 1) /\ (1 \in 1..(Len(R!Plan) + 1))'
<1>1. 1 \in 1..(Len(R!Plan) + 1)
  BY PlanFacts DEF PlanInOrder
<1>2. (1 \in 1..(Len(R!Plan) + 1))'
  BY PlanFactsNext DEF PlanInOrder
<1> QED BY <1>1, <1>2

\* A run begins.
LEMMA StartFolder ==
  ASSUME ReportInv, FolderInv, NEW k \in Packages,
         NEW l \in {{}} \cup {{x} : x \in R!Lockable}, R!StartRun(k[1], k[2], k[3], l)
  PROVE  FolderInv'
<1>1. /\ sheetStep = "idle" /\ sheetRun < MaxRuns /\ l \subseteq R!Lockable
      /\ sheetRun' = sheetRun + 1 /\ profile' = k[1] /\ platform' = k[2] /\ size' = k[3]
      /\ locked' = l /\ sheetCancel' = FALSE /\ handler' = "none" /\ sheetStep' = "next"
      /\ step' = 1 /\ timeouts' = 0 /\ queries' = <<>> /\ outcome' = "running"
      /\ UNCHANGED R!call /\ UNCHANGED <<sheets, manifests, notices>> /\ UNCHANGED <<index, caseIndex>>
  BY DEF R!StartRun, R!disk, R!report
<1>2. RunTypes /\ DiskTypes /\ PartsInv
  BY DEF FolderInv
<1>3. Fresh
  BY <1>1 DEF Fresh
<1>4. sheetRun' \in 0..MaxRuns /\ sheetRun' # 0
  <2>1. sheetRun \in 0..MaxRuns /\ MaxRuns \in Nat
    BY <1>2, ReportAssumptions DEF RunTypes, R!SizeAssumption
  <2> QED BY <1>1, <2>1
<1>5. profile' \in R!Profile /\ platform' \in R!Source /\ size' \in 0..MaxRows
  BY <1>1, ReportAssumptions DEF R!SizeAssumption
<1>6. locked' \in SUBSET (({"csv"} \X R!File) \cup ({"manifest"} \X R!Query))
  <2>1. DOMAIN sheets \subseteq R!File /\ DOMAIN manifests \subseteq R!Query
    BY <1>2 DEF DiskTypes, Typed
  <2>2. R!Lockable \subseteq (({"csv"} \X R!File) \cup ({"manifest"} \X R!Query))
    BY <2>1 DEF R!Lockable
  <2> QED BY <1>1, <2>2
<1>7. timeouts' \in 0..MaxTimeouts
  BY <1>1, ReportAssumptions DEF R!SizeAssumption
<1>8. (step \in 1..(Len(R!Plan) + 1))'
  BY <1>1, FirstPlace
<1>9. RunTypes'
  BY <1>1, <1>2, <1>4, <1>5, <1>6, <1>7, <1>8 DEF RunTypes
<1>10. PartsInv'
  BY <1>1, <1>2, PartsReset DEF Rolling
<1>11. AgreeInv'
  BY <1>1, NotAgreed
<1> QED BY <1>3, <1>9, <1>10, <1>11, FreshFolder

\* A run without exports, and a run that dies.
LEMMA EmptyFolder ==
  ASSUME ReportInv, FolderInv, R!SuppressedRun \/ R!Crash
  PROVE  FolderInv'
<1>1. RunTypes /\ PartsInv
  BY DEF FolderInv
<1>2. sheetRun \in 0..MaxRuns /\ MaxRuns \in Nat /\ MaxTimeouts \in Nat
  BY <1>1, ReportAssumptions DEF RunTypes, R!SizeAssumption
<1>3. CASE R!SuppressedRun
  <2>1. /\ sheetStep = "idle" /\ sheetRun < MaxRuns
        /\ sheetRun' = sheetRun + 1 /\ index' = <<>> /\ queries' = <<>> /\ outcome' = "suppressed"
        /\ UNCHANGED <<profile, platform, size, locked, sheetCancel, handler, sheetStep, step,
                       timeouts, caseIndex>>
        /\ UNCHANGED R!call /\ UNCHANGED <<sheets, manifests, notices>>
    BY <1>3 DEF R!SuppressedRun, R!disk
  <2>2. Fresh
    BY <2>1 DEF Fresh
  <2>3. sheetRun' \in 0..MaxRuns /\ DOMAIN index' = {}
    BY <1>2, <2>1
  <2>4. R!Plan' = R!Plan /\ Calling' = Calling
    BY <2>1 DEF R!Plan, R!Main, R!Included, R!Supporting, Calling
  <2>5. RunTypes'
    BY <1>1, <2>1, <2>3, <2>4 DEF RunTypes
  <2>6. PartsInv'
    BY <1>1, <2>1, PartsReset DEF Rolling
  <2> QED BY <2>1, <2>2, <2>5, <2>6, NotAgreed, FreshFolder
<1>4. CASE R!Crash
  <2>1. /\ sheetStep' = "idle" /\ outcome' = "crashed" /\ handler' = "none"
        /\ sheetCancel' = FALSE /\ step' = 1 /\ timeouts' = 0 /\ queries' = <<>> /\ R!Reset
        /\ UNCHANGED R!setting /\ UNCHANGED <<sheets, manifests, notices>> /\ UNCHANGED R!report
    BY <1>4 DEF R!Crash, R!disk
  <2>2. Fresh
    BY <2>1 DEF Fresh, R!setting
  <2>3. RunTypes'
    <3>1. step' \in 1..(Len(R!Plan) + 1) /\ timeouts' \in 0..MaxTimeouts
      BY <1>2, <2>1, FirstPlace
    <3> QED BY <1>1, <2>1, <3>1, RunGoesOn
  <2>4. PartsInv'
    BY <1>1, <2>1, PartsReset DEF Rolling
  <2> QED BY <2>1, <2>2, <2>3, <2>4, NotAgreed, FreshFolder
<1> QED BY <1>3, <1>4

\* The end of a run, early or not, but for the indexes.
LEMMA LeftFolder ==
  ASSUME ReportInv, FolderInv, sheetStep # "idle", sheetStep' \in {"idle", "finish"},
         UNCHANGED R!setting, UNCHANGED <<sheetCancel, step, timeouts, queries, notices, manifests>>,
         UNCHANGED R!report, handler' \in {"none", "dead"},
         R!Reset \/ (~Rolling /\ UNCHANGED R!call),
         UNCHANGED sheets \/ (Working /\ Apart), Typed(sheets'),
         outcome' = "failed" \/ (outcome' = "cancelled" /\ sheetStep' = "idle") \/ outcome' = outcome,
         sheetStep' = "finish" => outcome' = outcome
  PROVE  FolderInv'
<1>1. RunTypes /\ PartsInv /\ outcome = "running"
  BY UnderWay DEF FolderInv
<1>2. Quiet
  BY <1>1 DEF Quiet, Working
<1>3. RunTypes'
  <2>1. /\ step' \in 1..(Len(R!Plan) + 1) /\ timeouts' \in 0..MaxTimeouts
        /\ sheetCancel' \in BOOLEAN
    BY <1>1 DEF RunTypes
  <2> QED BY <1>1, <2>1, RunGoesOn
<1>4. PartsInv'
  <2>1. ~Rolling'
    BY DEF Rolling
  <2> QED BY <1>1, <2>1, PartsReset
<1>5. AgreeInv'
  BY <1>1, NotAgreed
<1> QED BY <1>2, <1>3, <1>4, <1>5, QuietFolder

\* The indexes are written from the manifests.
LEMMA FinishFolder == ReportInv /\ FolderInv /\ R!Finish => FolderInv'
<1> SUFFICES ASSUME ReportInv, FolderInv, R!Finish PROVE FolderInv'
  OBVIOUS
<1>1. /\ sheetStep = "finish" /\ index' = R!Indexed /\ caseIndex' = R!Indexed
      /\ sheetStep' = "idle" /\ handler' = "none"
      /\ outcome' = IF sheetCancel THEN "cancelled" ELSE "ok"
      /\ UNCHANGED R!setting /\ UNCHANGED <<sheetCancel, step, timeouts, queries>>
      /\ UNCHANGED R!call /\ UNCHANGED <<sheets, manifests, notices>>
  BY DEF R!Finish, R!disk
<1>2. RunTypes /\ PartsInv /\ DiskTypes
  BY DEF FolderInv
<1>3. Quiet
  BY <1>1 DEF Quiet, Working
<1>4. RunTypes'
  <2>1. R!Plan' = R!Plan
    BY <1>1 DEF R!setting, R!Plan, R!Main, R!Included, R!Supporting
  <2>2. DOMAIN R!Indexed \subseteq Name
    BY DEF R!Indexed
  <2>3. DOMAIN index' \subseteq Name /\ DOMAIN caseIndex' \subseteq Name
    BY <1>1, <2>2
  <2> QED BY <1>1, <1>2, <2>1, <2>3 DEF RunTypes, R!setting
<1>5. PartsInv'
  BY <1>1, <1>2, PartsReset DEF Rolling
<1>6. AgreeInv'
  <2>1. R!Indexed' = R!Indexed
    BY <1>1 DEF R!Indexed
  <2> QED BY <1>1, <2>1 DEF AgreeInv
<1>7. Typed(sheets')
  BY <1>1, <1>2 DEF DiskTypes
<1> QED BY <1>3, <1>4, <1>5, <1>6, <1>7, QuietFolder

\* The end without indexes.
LEMMA InterruptedFolder == ReportInv /\ FolderInv /\ R!FinishInterrupted => FolderInv'
<1> SUFFICES ASSUME ReportInv, FolderInv, R!FinishInterrupted PROVE FolderInv'
  OBVIOUS
<1>1. /\ sheetStep # "idle" /\ sheetStep' = "idle" /\ outcome' = "failed" /\ handler' = "none" /\ R!Reset
      /\ UNCHANGED R!setting /\ UNCHANGED R!report
      /\ UNCHANGED <<sheetCancel, step, timeouts, queries, notices, manifests>> /\ UNCHANGED sheets
  BY DEF R!FinishInterrupted, R!Die, R!disk
<1>2. Typed(sheets')
  BY <1>1 DEF FolderInv, DiskTypes
<1> QED BY <1>1, <1>2, LeftFolder

\* An exception in a call.
LEMMA ThrownFolder ==
  ASSUME ReportInv, FolderInv, Working, NEW CONSTANT h, h \in {"none", "dead"}, R!Throw(h),
         UNCHANGED sheets \/ Apart, Typed(sheets'), UNCHANGED <<notices, manifests>>
  PROVE  FolderInv'
<1>1. /\ sheetStep' \in {"idle", "finish"} /\ handler' \in {"none", "dead"} /\ R!Reset
      /\ UNCHANGED R!setting /\ UNCHANGED R!report /\ UNCHANGED <<sheetCancel, step, timeouts, queries>>
      /\ outcome' = "failed" \/ outcome' = outcome
      /\ sheetStep' = "finish" => outcome' = outcome
  BY DEF R!Throw, R!Die
<1>2. sheetStep # "idle"
  BY DEF Working
<1> QED BY <1>1, <1>2, LeftFolder, Zenon

\* A call goes on, and so does the run.
LEMMA CalledFolder ==
  ASSUME ReportInv, FolderInv, sheetStep # "idle", sheetStep' \in {"next", "open", "rows", "roll", "finish"},
         UNCHANGED R!setting, UNCHANGED <<step, timeouts, queries, notices, manifests, outcome>>,
         UNCHANGED R!report, sheetCancel' \in BOOLEAN, sheetCancel => sheetCancel',
         handler' \in {"none", "live", "dead"}, handler' = "live" => Calling',
         UNCHANGED sheets \/ (Working /\ Apart), Typed(sheets'), Working' => Working, PartsInv'
  PROVE  FolderInv'
<1>1. RunTypes /\ outcome = "running" /\ outcome' = "running"
  BY UnderWay DEF FolderInv
<1>2. Quiet
  BY <1>1 DEF Quiet
<1>3. RunTypes'
  <2>1. step' \in 1..(Len(R!Plan) + 1) /\ timeouts' \in 0..MaxTimeouts
    BY <1>1 DEF RunTypes
  <2> QED BY <1>1, <2>1, RunGoesOn
<1>4. AgreeInv'
  BY <1>1, NotAgreed
<1> QED BY <1>2, <1>3, <1>4, QuietFolder

\* What is to be known of a call that goes on writing.
LEMMA PartsGoOn ==
  ASSUME UNCHANGED R!setting, UNCHANGED step, Rolling',
         NEW CONSTANT q, q = R!Current, NEW CONSTANT p, p = IF split' THEN part' ELSE 0,
         split' \in BOOLEAN, part' \in Nat \ {0}, inPart' \in Nat, total' \in Nat,
         listed' \in Seq(R!Row), inPart' <= ChunkRows, total' <= size, part' - 1 <= total' - inPart',
         sheetStep' = "roll" => total' < size /\ inPart' = ChunkRows,
         ~split' => part' = 1 /\ listed' = <<>> /\ inPart' = total',
         <<q, p>> \in DOMAIN sheets',
         sheets'[<<q, p>>] = [run |-> sheetRun, first |-> total' - inPart' + 1, rows |-> inPart'],
         R!RowsOf(listed') = total' - inPart', Tells(sheets', sheetRun, q, listed'),
         \A i \in 1..Len(listed') : listed'[i][1] \in 1..(part' - 1)
  PROVE  PartsInv'
<1>1. R!Current' = q /\ sheetRun' = sheetRun /\ size' = size
  BY SamePlan DEF R!setting
<1>2. R!Out' = <<q, p>>
  BY <1>1 DEF R!Out
<1>3. R!Holding' = [run |-> sheetRun, first |-> total' - inPart' + 1, rows |-> inPart']
  BY <1>1 DEF R!Holding
<1>4. Tells(sheets', sheetRun', q, listed')
  BY <1>1
<1>5. R!Out' \in DOMAIN sheets' /\ sheets'[R!Out'] = R!Holding'
  BY <1>2, <1>3
<1> QED BY <1>1, <1>4, <1>5 DEF PartsInv

\* A call goes on with what it has written.
LEMMA PartsSame ==
  ASSUME PartsInv, UNCHANGED R!setting, UNCHANGED R!call, UNCHANGED <<step, sheets>>,
         Rolling' = Rolling,
         sheetStep' = "roll" => sheetStep = "roll" \/ (Rolling /\ total < size /\ inPart = ChunkRows)
  PROVE  PartsInv'
<1>1. R!Current' = R!Current /\ sheetRun' = sheetRun /\ size' = size
  BY SamePlan DEF R!setting
<1>2. split' = split /\ part' = part /\ inPart' = inPart /\ total' = total /\ listed' = listed
  BY DEF R!call
<1>3. R!Out' = R!Out /\ R!Holding' = R!Holding
  BY <1>1, <1>2 DEF R!Out, R!Holding
<1>4. sheetStep' = "roll" => total' < size' /\ inPart' = ChunkRows
  BY <1>1, <1>2 DEF PartsInv, Rolling
<1>5. CASE ~Rolling
  BY <1>2, <1>5 DEF PartsInv
<1>6. CASE Rolling
  BY <1>1, <1>2, <1>3, <1>4, <1>6 DEF PartsInv
<1> QED BY <1>5, <1>6

\* A cancellation.
LEMMA CancelFolder == ReportInv /\ FolderInv /\ R!RequestCancel => FolderInv'
<1> SUFFICES ASSUME ReportInv, FolderInv, R!RequestCancel PROVE FolderInv'
  OBVIOUS
<1>1. /\ sheetStep # "idle" /\ sheetCancel' = TRUE
      /\ UNCHANGED R!setting /\ UNCHANGED <<step, timeouts, queries, notices, manifests, outcome>>
      /\ UNCHANGED R!report /\ UNCHANGED R!call /\ UNCHANGED <<handler, sheetStep, sheets>>
  BY DEF R!RequestCancel, R!disk
<1>2. RunTypes /\ PartsInv /\ Typed(sheets')
  BY <1>1 DEF FolderInv, DiskTypes
<1>3. Rolling' = Rolling /\ Calling' = Calling /\ Working' = Working
  BY <1>1 DEF Rolling, Calling, Working
<1>4. PartsInv'
  BY <1>1, <1>2, <1>3, PartsSame
<1>5. /\ sheetStep' \in {"next", "open", "rows", "roll", "finish"}
      /\ handler' \in {"none", "live", "dead"} /\ (handler' = "live" => Calling')
  BY <1>1, <1>2, <1>3 DEF RunTypes
<1> QED BY <1>1, <1>2, <1>3, <1>4, <1>5, CalledFolder

\* A call begins.
LEMMA BeginFolder == ReportInv /\ FolderInv /\ R!Begin => FolderInv'
<1> SUFFICES ASSUME ReportInv, FolderInv, R!Begin PROVE FolderInv'
  OBVIOUS
<1>1. /\ sheetStep = "next" /\ sheetStep' = "open" /\ handler' = "live"
      /\ UNCHANGED R!setting /\ UNCHANGED <<step, timeouts, queries, notices, manifests, outcome>>
      /\ UNCHANGED R!report /\ UNCHANGED R!call /\ UNCHANGED <<sheetCancel, sheets>>
  BY DEF R!Begin, R!disk
<1>2. RunTypes /\ PartsInv /\ Typed(sheets')
  BY <1>1 DEF FolderInv, DiskTypes
<1>3. PartsInv'
  BY <1>1, <1>2, PartsReset DEF Rolling
<1>4. Calling' /\ Working /\ sheetCancel' \in BOOLEAN
  BY <1>1, <1>2 DEF Calling, Working, RunTypes
<1> QED BY <1>1, <1>2, <1>3, <1>4, CalledFolder

\* The unsplit file is opened, empty, or cannot be.
LEMMA OpenFolder == ReportInv /\ FolderInv /\ R!Open => FolderInv'
<1> SUFFICES ASSUME ReportInv, FolderInv, R!Open PROVE FolderInv'
  OBVIOUS
<1>1. /\ sheetStep = "open" /\ Working /\ ~Rolling
      /\ ~split /\ inPart = 0 /\ total = 0 /\ part = 1 /\ listed = <<>> /\ split \in BOOLEAN
  BY DEF R!Open, ReportInv, CallInv, Working, Rolling, FolderInv, PartsInv
<1>2. PICK q \in R!Query : q = R!Current
  BY <1>1, CurrentIs
<1>3. R!Out = <<q, 0>>
  BY <1>1, <1>2 DEF R!Out
<1>4. CASE <<"csv", R!Out>> \in locked
  <2>1. R!Throw("dead") /\ UNCHANGED R!disk
    BY <1>4 DEF R!Open
  <2>2. PICK h : h = "dead"
    OBVIOUS
  <2>3. R!Throw(h) /\ h \in {"none", "dead"} /\ UNCHANGED sheets /\ UNCHANGED <<notices, manifests>>
    BY <2>1, <2>2 DEF R!disk
  <2>4. Typed(sheets')
    BY <2>3 DEF FolderInv, DiskTypes
  <2> QED BY <1>1, <2>3, <2>4, ThrownFolder
<1>5. CASE <<"csv", R!Out>> \notin locked
  <2>1. PICK y : y = R!Holding
    OBVIOUS
  <2>2. /\ sheets' = R!Put(sheets, <<R!Current, 0>>, y) /\ sheetStep' = "rows"
        /\ UNCHANGED R!setting /\ UNCHANGED <<step, timeouts, queries, notices, manifests, outcome>>
        /\ UNCHANGED R!report /\ UNCHANGED R!call /\ UNCHANGED <<sheetCancel, handler>>
    BY <1>2, <1>3, <1>5, <2>1 DEF R!Open
  <2>3. Apart
    BY <2>2, PutApart
  <2>4. y = [run |-> sheetRun, first |-> 1, rows |-> 0]
    BY <1>1, <2>1 DEF R!Holding
  <2>5. /\ MaxRows \in Nat /\ ChunkRows \in Nat \ {0} /\ size \in 0..MaxRows /\ sheetRun \in 1..MaxRuns
    <3>1. sheetRun \in 0..MaxRuns /\ sheetRun # 0 /\ size \in 0..MaxRows
      BY <1>1 DEF FolderInv, RunTypes
    <3>2. MaxRows \in Nat /\ ChunkRows \in Nat \ {0} /\ MaxRuns \in Nat
      BY ReportAssumptions DEF R!SizeAssumption
    <3> QED BY <3>1, <3>2
  <2>6. Typed(sheets')
    <3>1. y \in R!Content
      <4>1. 1 \in 1..(MaxRows + 1) /\ 0 \in 0..MaxRows
        BY <2>5
      <4> QED BY <2>4, <2>5, <4>1, ContentIs
    <3>2. <<R!Current, 0>> \in R!File
      <4>1. 0 \in R!Part
        BY <2>5 DEF R!Part
      <4> QED BY <1>2, <4>1 DEF R!File
    <3> QED BY <2>2, <3>1, <3>2, PutTyped DEF FolderInv, DiskTypes
  <2>7. PartsInv'
    <3>1. ~split' /\ split' \in BOOLEAN /\ part' = 1 /\ inPart' = 0 /\ total' = 0 /\ listed' = <<>>
      BY <1>1, <2>2 DEF R!call
    <3>2. <<q, 0>> \in DOMAIN sheets' /\ sheets'[<<q, 0>>] = y
      BY <1>2, <2>2 DEF R!Put
    <3>3. /\ R!RowsOf(listed') = total' - inPart' /\ Tells(sheets', sheetRun, q, listed')
          /\ listed' \in Seq(R!Row)
      BY <3>1, NoRows, TellsNothing
    <3>4. PICK p : p = IF split' THEN part' ELSE 0
      OBVIOUS
    <3>5. p = 0
      BY <3>1, <3>4
    <3>6. Rolling' /\ sheetStep' # "roll" /\ \A i \in 1..Len(listed') : listed'[i][1] \in 1..(part' - 1)
      BY <2>2, <3>1 DEF Rolling
    <3>7. sheets'[<<q, p>>] = [run |-> sheetRun, first |-> total' - inPart' + 1, rows |-> inPart']
      BY <2>4, <3>1, <3>2, <3>5
    <3>8. inPart' <= ChunkRows /\ total' <= size /\ part' - 1 <= total' - inPart'
      BY <2>5, <3>1
    <3>9. UNCHANGED R!setting /\ UNCHANGED step /\ <<q, p>> \in DOMAIN sheets'
      BY <2>2, <3>2, <3>5
    <3>10. /\ part' \in Nat \ {0} /\ inPart' \in Nat /\ total' \in Nat
           /\ ~split' => part' = 1 /\ listed' = <<>> /\ inPart' = total'
      BY <3>1
    <3> QED BY <1>2, <3>1, <3>3, <3>4, <3>6, <3>7, <3>8, <3>9, <3>10, PartsGoOn
  <2>8. /\ sheetStep # "idle" /\ sheetStep' \in {"next", "open", "rows", "roll", "finish"}
        /\ sheetCancel' \in BOOLEAN /\ handler' \in {"none", "live", "dead"}
        /\ Calling'
    BY <1>1, <2>2 DEF FolderInv, RunTypes, Calling
  <2> QED BY <1>1, <2>2, <2>3, <2>6, <2>7, <2>8, CalledFolder
<1> QED BY <1>4, <1>5

\* A full part changes nothing yet.
LEMMA FillFolder == ReportInv /\ FolderInv /\ R!Fill => FolderInv'
<1> SUFFICES ASSUME ReportInv, FolderInv, R!Fill PROVE FolderInv'
  OBVIOUS
<1>1. /\ sheetStep = "rows" /\ sheetStep' = "roll" /\ total < size /\ inPart = ChunkRows
      /\ UNCHANGED R!setting /\ UNCHANGED <<step, timeouts, queries, notices, manifests, outcome>>
      /\ UNCHANGED R!report /\ UNCHANGED R!call /\ UNCHANGED <<sheetCancel, handler, sheets>>
  BY DEF R!Fill, R!disk
<1>2. RunTypes /\ PartsInv /\ Typed(sheets')
  BY <1>1 DEF FolderInv, DiskTypes
<1>3. Rolling /\ Rolling' /\ Calling' /\ Working
  BY <1>1 DEF Rolling, Calling, Working
<1>4. PartsInv'
  <2>1. Rolling' = Rolling
    BY <1>1 DEF Rolling
  <2> QED BY <1>1, <1>2, <1>3, <2>1, PartsSame
<1>5. /\ handler' \in {"none", "live", "dead"} /\ sheetCancel' \in BOOLEAN
      /\ sheetStep' \in {"next", "open", "rows", "roll", "finish"} /\ sheetStep # "idle"
  BY <1>1, <1>2 DEF RunTypes
<1> QED BY <1>1, <1>2, <1>3, <1>4, <1>5, CalledFolder

\* A row goes to the part of the call.
LEMMA WriteRowFolder == ReportInv /\ FolderInv /\ R!WriteRow => FolderInv'
<1> SUFFICES ASSUME ReportInv, FolderInv, R!WriteRow PROVE FolderInv'
  OBVIOUS
<1>1. RunTypes /\ DiskTypes /\ PartsInv
  BY DEF FolderInv
<1>2. PICK rest, p : rest = R!Holding /\ p = IF split THEN part ELSE 0
  OBVIOUS
<1>3. PICK new : new = [rest EXCEPT !.rows = @ + 1]
  OBVIOUS
<1>4. /\ sheetStep = "rows" /\ sheetStep' = "rows" /\ total < size /\ inPart < ChunkRows
      /\ total' = total + 1 /\ inPart' = inPart + 1 /\ UNCHANGED <<split, part, listed>>
      /\ sheets' = R!Put(sheets, <<R!Current, p>>, new)
      /\ UNCHANGED R!setting /\ UNCHANGED <<step, timeouts, queries, notices, manifests, outcome>>
      /\ UNCHANGED R!report /\ UNCHANGED <<sheetCancel, handler>>
  BY <1>2, <1>3 DEF R!WriteRow, R!Out
<1>5. Rolling /\ Rolling' /\ Working /\ Calling'
  BY <1>4 DEF Rolling, Working, Calling
<1>6. PICK q \in R!Query : q = R!Current
  BY <1>5, CurrentIs
<1>7. /\ MaxRows \in Nat /\ ChunkRows \in Nat \ {0} /\ size \in 0..MaxRows
      /\ part \in 1..(MaxRows + 1) /\ part \in R!Part /\ inPart \in 0..MaxRows
      /\ total \in 0..MaxRows /\ sheetRun \in 1..MaxRuns /\ inPart <= total
  BY <1>1, <1>5, CallBounds
<1>8. /\ listed \in Seq(R!Row) /\ R!RowsOf(listed) = total - inPart
      /\ Tells(sheets, sheetRun, q, listed)
      /\ \A i \in 1..Len(listed) : listed[i][1] \in 1..(part - 1)
      /\ ~split => part = 1 /\ listed = <<>> /\ inPart = total
      /\ split \in BOOLEAN /\ part - 1 <= total - inPart
  BY <1>1, <1>5, <1>6 DEF PartsInv
<1>9. new = [run |-> sheetRun, first |-> total' - inPart' + 1, rows |-> inPart']
  <2>1. rest = [run |-> sheetRun, first |-> total - inPart + 1, rows |-> inPart]
    BY <1>2 DEF R!Holding
  <2>2. total' - inPart' + 1 = total - inPart + 1
    BY <1>4, <1>7
  <2>3. new = [run |-> sheetRun, first |-> total - inPart + 1, rows |-> inPart + 1]
    BY <1>3, <2>1
  <2> QED BY <1>4, <2>2, <2>3
<1>10. Apart
  BY <1>4, PutApart
<1>11. p \in R!Part
  BY <1>2, <1>7 DEF R!Part
<1>12. Typed(sheets')
  <2>1. new \in R!Content
    <3>1. inPart' \in 0..MaxRows /\ total' - inPart' + 1 \in 1..(MaxRows + 1)
      BY <1>4, <1>7
    <3> QED BY <1>7, <1>9, <3>1, ContentIs
  <2>2. <<R!Current, p>> \in R!File
    BY <1>6, <1>11 DEF R!File
  <2> QED BY <1>1, <1>4, <2>1, <2>2, PutTyped DEF DiskTypes
<1>13. PartsInv'
  <2>1. <<q, p>> \in DOMAIN sheets' /\ sheets'[<<q, p>>] = new
    BY <1>4, <1>6 DEF R!Put
  <2>2. Tells(sheets', sheetRun, q, listed)
    <3>1. ASSUME NEW i \in 1..Len(listed), <<q, listed[i][1]>> \in DOMAIN sheets
          PROVE  /\ <<q, listed[i][1]>> \in DOMAIN sheets'
                 /\ sheets'[<<q, listed[i][1]>>] = sheets[<<q, listed[i][1]>>]
      <4>1. listed[i][1] # p
        <5>1. CASE split
          <6>1. p = part /\ listed[i][1] \in 1..(part - 1)
            BY <1>2, <1>8, <3>1, <5>1
          <6> QED BY <1>7, <6>1
        <5>2. CASE ~split
          <6>1. listed = <<>>
            BY <1>8, <5>2
          <6> QED BY <3>1, <6>1
        <5> QED BY <5>1, <5>2
      <4>2. PICK x : x = <<q, listed[i][1]>>
        OBVIOUS
      <4>3. x # <<R!Current, p>>
        BY <4>1, <4>2
      <4> QED BY <1>4, <3>1, <4>2, <4>3 DEF R!Put
    <3> QED BY <1>8, <3>1, TellsStill
  <2>3. p = IF split' THEN part' ELSE 0
    BY <1>2, <1>4
  <2>4. /\ part' \in Nat \ {0} /\ inPart' \in Nat /\ total' \in Nat /\ inPart' <= ChunkRows
        /\ total' <= size /\ part' - 1 <= total' - inPart'
        /\ R!RowsOf(listed') = total' - inPart'
    BY <1>4, <1>7, <1>8
  <2>5. ~split' => part' = 1 /\ listed' = <<>> /\ inPart' = total'
    BY <1>4, <1>8
  <2>6. /\ split' \in BOOLEAN /\ listed' \in Seq(R!Row) /\ Tells(sheets', sheetRun, q, listed')
        /\ \A i \in 1..Len(listed') : listed'[i][1] \in 1..(part' - 1)
    BY <1>4, <1>8, <2>2
  <2>7. /\ <<q, p>> \in DOMAIN sheets' /\ sheetStep' # "roll"
        /\ sheets'[<<q, p>>] = [run |-> sheetRun, first |-> total' - inPart' + 1, rows |-> inPart']
    BY <1>4, <1>9, <2>1
  <2>8. UNCHANGED R!setting /\ UNCHANGED step /\ q = R!Current
    BY <1>4, <1>6
  <2> QED BY <1>5, <2>3, <2>4, <2>5, <2>6, <2>7, <2>8, PartsGoOn
<1>14. /\ handler' \in {"none", "live", "dead"} /\ sheetCancel' \in BOOLEAN
       /\ sheetStep' \in {"next", "open", "rows", "roll", "finish"} /\ sheetStep # "idle"
  BY <1>1, <1>4 DEF RunTypes
<1> QED BY <1>4, <1>5, <1>10, <1>12, <1>13, <1>14, CalledFolder

\* The full part is listed, and the next one begun.
LEMMA NextPartFolder == ReportInv /\ FolderInv /\ R!NextPart => FolderInv'
<1> SUFFICES ASSUME ReportInv, FolderInv, R!NextPart PROVE FolderInv'
  OBVIOUS
<1>1. RunTypes /\ DiskTypes /\ PartsInv
  BY DEF FolderInv
<1>2. PICK new, renamed, p, rows :
        /\ new = [run |-> sheetRun, first |-> total + 1, rows |-> 1]
        /\ renamed = R!Renamed /\ p = part + 1 /\ rows = Append(listed, R!PartRow)
  OBVIOUS
<1>3. /\ sheetStep = "roll" /\ sheetStep' = "rows" /\ split' = TRUE /\ part' = p
      /\ inPart' = 1 /\ total' = total + 1 /\ listed' = rows
      /\ sheets' = R!Put(renamed, <<R!Current, p>>, new)
      /\ UNCHANGED R!setting /\ UNCHANGED <<step, timeouts, queries, notices, manifests, outcome>>
      /\ UNCHANGED R!report /\ UNCHANGED <<sheetCancel, handler>>
  BY <1>2 DEF R!NextPart, R!NewPart
<1>4. Rolling /\ Rolling' /\ Working /\ Calling'
  BY <1>3 DEF Rolling, Working, Calling
<1>5. PICK q \in R!Query : q = R!Current
  BY <1>4, CurrentIs
<1>6. /\ MaxRows \in Nat /\ ChunkRows \in Nat \ {0} /\ size \in 0..MaxRows
      /\ part \in 1..(MaxRows + 1) /\ inPart \in 0..MaxRows
      /\ total \in 0..MaxRows /\ sheetRun \in 1..MaxRuns /\ inPart <= total
      /\ total + 1 \in 1..MaxRows /\ p \in R!Part /\ part <= total
  BY <1>1, <1>2, <1>3, <1>4, CallBounds
<1>7. /\ Typed(renamed) /\ rows \in Seq(R!Row) /\ R!RowsOf(rows) = total
      /\ Tells(renamed, sheetRun, q, rows)
      /\ \A i \in 1..Len(rows) : rows[i][1] \in 1..part
  BY <1>2, <1>3, <1>5, Rolled
<1>8. total < size
  BY <1>1, <1>3, <1>4 DEF PartsInv
<1>9. Apart
  <2>1. \A x, k : x # R!Current => <<x, k>> # <<R!Current, p>>
    OBVIOUS
  <2>2. \A x, k : x # R!Current =>
          /\ <<x, k>> \in DOMAIN renamed <=> <<x, k>> \in DOMAIN sheets
          /\ <<x, k>> \in DOMAIN sheets => renamed[<<x, k>>] = sheets[<<x, k>>]
    BY <1>2, RenamedApart
  <2> QED BY <1>3, <2>1, <2>2 DEF Apart, R!Put
<1>10. Typed(sheets')
  <2>1. new \in R!Content
    <3>1. total + 1 \in 1..(MaxRows + 1) /\ 1 \in 0..MaxRows
      BY <1>6
    <3> QED BY <1>2, <1>6, <3>1, ContentIs
  <2>2. <<R!Current, p>> \in R!File
    BY <1>5, <1>6 DEF R!File
  <2> QED BY <1>3, <1>7, <2>1, <2>2, PutTyped
<1>11. PartsInv'
  <2>1. <<q, p>> \in DOMAIN sheets' /\ sheets'[<<q, p>>] = new
    BY <1>3, <1>5 DEF R!Put
  <2>2. Tells(sheets', sheetRun, q, rows)
    <3>1. ASSUME NEW i \in 1..Len(rows), <<q, rows[i][1]>> \in DOMAIN renamed
          PROVE  /\ <<q, rows[i][1]>> \in DOMAIN sheets'
                 /\ sheets'[<<q, rows[i][1]>>] = renamed[<<q, rows[i][1]>>]
      <4>1. rows[i][1] \in 1..part
        BY <1>7, <3>1
      <4>2. rows[i][1] # p
        BY <1>2, <1>6, <4>1
      <4>3. PICK x : x = <<q, rows[i][1]>>
        OBVIOUS
      <4>4. x # <<R!Current, p>>
        BY <4>2, <4>3
      <4> QED BY <1>3, <3>1, <4>3, <4>4 DEF R!Put
    <3> QED BY <1>7, <3>1, TellsStill
  <2>3. p = IF split' THEN part' ELSE 0
    BY <1>3
  <2>4. /\ part' \in Nat \ {0} /\ inPart' \in Nat /\ total' \in Nat /\ inPart' <= ChunkRows
        /\ total' <= size /\ part' - 1 <= total' - inPart'
        /\ total' - inPart' = total
    BY <1>2, <1>3, <1>6, <1>8
  <2>5. R!RowsOf(listed') = total' - inPart'
    BY <1>3, <1>7, <2>4
  <2>6. part' - 1 = part
    BY <1>2, <1>3, <1>6
  <2>7. /\ listed' \in Seq(R!Row) /\ Tells(sheets', sheetRun, q, listed')
        /\ \A i \in 1..Len(listed') : listed'[i][1] \in 1..(part' - 1)
    BY <1>3, <1>7, <2>2, <2>6
  <2>8. sheets'[<<q, p>>] = [run |-> sheetRun, first |-> total' - inPart' + 1, rows |-> inPart']
    BY <1>2, <1>3, <2>1, <2>4
  <2>9. split' /\ split' \in BOOLEAN /\ sheetStep' # "roll"
    BY <1>3
  <2>10. UNCHANGED R!setting /\ UNCHANGED step /\ q = R!Current
    BY <1>3, <1>5
  <2> QED BY <1>4, <2>1, <2>3, <2>4, <2>5, <2>7, <2>8, <2>9, <2>10, PartsGoOn
<1>12. /\ handler' \in {"none", "live", "dead"} /\ sheetCancel' \in BOOLEAN
       /\ sheetStep' \in {"next", "open", "rows", "roll", "finish"} /\ sheetStep # "idle"
  BY <1>1, <1>3 DEF RunTypes
<1> QED BY <1>3, <1>4, <1>9, <1>10, <1>11, <1>12, CalledFolder

\* A part that cannot be renamed or opened ends the run, or the samples; but in a run
\* that was cancelled it is a query that ends, with what is listed of it.
LEMMA NextPartFailsFolder == ReportInv /\ FolderInv /\ R!NextPartFails => FolderInv'
<1> SUFFICES ASSUME ReportInv, FolderInv, R!NextPartFails PROVE FolderInv'
  OBVIOUS
<1>1. /\ RunTypes /\ DiskTypes /\ PartsInv /\ sheetStep = "roll" /\ Working /\ Rolling
  BY DEF FolderInv, R!NextPartFails, Working, Rolling
<1>2. PICK q \in R!Query, full \in {Append(listed, R!PartRow)} :
          q = R!Current /\ full = Append(listed, R!PartRow)
  BY <1>1, CurrentIs
<1>3. sheets' = IF R!RenameFails THEN sheets ELSE R!Renamed
  BY DEF R!NextPartFails
<1>4. /\ Typed(R!Renamed) /\ full \in Seq(R!Row) /\ R!RowsOf(full) = total
      /\ Tells(R!Renamed, sheetRun, q, full)
  BY <1>1, <1>2, Rolled
<1>5. Typed(sheets')
  BY <1>1, <1>3, <1>4 DEF DiskTypes
<1>6. Apart
  BY <1>3, RenamedApart DEF Apart
<1>7. CASE ~sheetCancel
  <2>1. PICK h : h = "none"
    OBVIOUS
  <2>2. R!Throw(h) /\ h \in {"none", "dead"} /\ UNCHANGED <<notices, manifests>>
    BY <1>7, <2>1 DEF R!NextPartFails
  <2> QED BY <1>1, <1>5, <1>6, <2>2, ThrownFolder
<1>8. CASE sheetCancel
  <2>1. PICK rows, how : /\ rows = IF R!RenameFails THEN <<<<0, total>>>>
                                   ELSE listed \o <<R!PartRow, <<part + 1, 0>>>>
                         /\ how = "cancelled"
    OBVIOUS
  <2>2. /\ manifests' = IF <<"manifest", q>> \in locked THEN manifests
                        ELSE R!Put(manifests, q, rows)
        /\ R!Return(how)
        /\ UNCHANGED R!setting /\ UNCHANGED <<sheetCancel, timeouts, notices, outcome>>
        /\ UNCHANGED R!report
    BY <1>2, <1>8, <2>1 DEF R!NextPartFails
  <2>3. /\ part \in R!Part /\ part + 1 \in R!Part /\ inPart \in 0..MaxRows /\ total \in 0..MaxRows
        /\ MaxRows \in Nat /\ 0 \in R!Part
    BY <1>1, CallBounds DEF R!Part
  <2>4. rows \in Seq(R!Row) /\ Tells(sheets', sheetRun, q, rows)
    <3>1. CASE R!RenameFails
      <4>1. ~split /\ sheets' = sheets
        BY <1>3, <3>1 DEF R!RenameFails
      <4>2. /\ <<q, 0>> \in DOMAIN sheets
            /\ sheets[<<q, 0>>] = [run |-> sheetRun, first |-> 1, rows |-> total]
        <5>1. R!Out = <<q, 0>> /\ inPart = total
          BY <1>1, <1>2, <4>1 DEF R!Out, PartsInv
        <5>2. R!Holding = [run |-> sheetRun, first |-> 1, rows |-> total]
          BY <2>3, <5>1 DEF R!Holding
        <5> QED BY <1>1, <5>1, <5>2 DEF PartsInv
      <4>3. PICK none \in Seq(R!Row) : none = <<>>
        <5>1. PICK X : X = R!Row
          OBVIOUS
        <5>2. <<>> \in Seq(X)
          OBVIOUS
        <5> QED BY <5>1, <5>2, Zenon
      <4>4. R!RowsOf(none) = 0 /\ Tells(sheets, sheetRun, q, none)
        BY <4>3, NoRows, TellsNothing
      <4>5. [run |-> sheetRun, first |-> R!RowsOf(none) + 1, rows |-> total]
              = [run |-> sheetRun, first |-> 1, rows |-> total]
        BY <4>4
      <4>6. Tells(sheets, sheetRun, q, Append(none, <<0, total>>))
        BY <2>3, <4>2, <4>4, <4>5, TellsMore
      <4>7. rows = Append(none, <<0, total>>)
        BY <2>1, <3>1, <4>3
      <4>8. rows \in Seq(R!Row)
        <5>1. PICK X : X = R!Row
          OBVIOUS
        <5>2. none \in Seq(X) /\ <<0, total>> \in X
          BY <2>3, <5>1 DEF R!Row
        <5>3. Append(none, <<0, total>>) \in Seq(X)
          BY <5>2
        <5> QED BY <4>7, <5>1, <5>3, Zenon
      <4> QED BY <4>1, <4>6, <4>7, <4>8
    <3>2. CASE ~R!RenameFails
      <4>1. rows = Append(full, <<part + 1, 0>>)
        <5>1. PICK X, a, b : X = R!Row /\ a = R!PartRow /\ b = <<part + 1, 0>>
          OBVIOUS
        <5>2. listed \in Seq(X) /\ a \in X /\ b \in X
          BY <1>1, <2>3, <5>1 DEF PartsInv, R!Row, R!PartRow
        <5>3. listed \o <<a, b>> = Append(Append(listed, a), b)
          BY <5>2
        <5> QED BY <1>2, <2>1, <3>2, <5>1, <5>3, Zenon
      <4>2. 0 \in 0..MaxRows
        BY <2>3
      <4>3. PICK none \in 0..MaxRows : none = 0
        BY <4>2
      <4>4. Tells(R!Renamed, sheetRun, q, Append(full, <<part + 1, none>>))
        <5>1. ~(none > 0)
          BY <4>3
        <5> QED BY <1>4, <2>3, <5>1, TellsMore
      <4>5. rows \in Seq(R!Row)
        <5>1. PICK X : X = R!Row
          OBVIOUS
        <5>2. full \in Seq(X) /\ <<part + 1, 0>> \in X
          BY <1>4, <2>3, <5>1 DEF R!Row
        <5>3. Append(full, <<part + 1, 0>>) \in Seq(X)
          BY <5>2
        <5> QED BY <4>1, <5>1, <5>3, Zenon
      <4> QED BY <1>3, <3>2, <4>1, <4>3, <4>4, <4>5
    <3> QED BY <3>1, <3>2
  <2>5. \/ manifests' = manifests /\ <<"manifest", q>> \in locked
        \/ manifests' = R!Put(manifests, q, rows)
    BY <2>2
  <2>6. Ending(how, rows)
    BY <1>1, <1>2, <1>6, <1>8, <2>1, <2>2, <2>4, <2>5 DEF Ending
  <2>7. timeouts' \in 0..MaxTimeouts
    BY <1>1, <2>2 DEF RunTypes
  <2> QED BY <1>5, <2>2, <2>6, <2>7, EndingFolder
<1> QED BY <1>7, <1>8

\* A query that is not asked, or whose sample is a copy.
LEMMA UnaskedFolder == ReportInv /\ FolderInv /\ (R!Skip \/ R!ReuseExport) => FolderInv'
<1> SUFFICES ASSUME ReportInv, FolderInv, R!Skip \/ R!ReuseExport PROVE FolderInv'
  OBVIOUS
<1>1. RunTypes /\ DiskTypes /\ Working
  BY DEF FolderInv, Working, R!Skip, R!ReuseExport
<1>2. PICK q \in R!Query : q = R!Current
  BY <1>1, CurrentIs
<1>3. timeouts \in 0..MaxTimeouts /\ 0 \in R!Part
  <2>1. MaxRows \in Nat
    BY ReportAssumptions DEF R!SizeAssumption
  <2> QED BY <1>1, <2>1 DEF RunTypes, R!Part
<1>4. PICK rows : rows = listed
  OBVIOUS
<1>5. CASE R!Skip
  <2>1. PICK how : how = "skipped"
    OBVIOUS
  <2>2. /\ R!Return(how) /\ UNCHANGED R!setting /\ UNCHANGED <<sheetCancel, timeouts, outcome>>
        /\ UNCHANGED <<sheets, manifests, notices>> /\ UNCHANGED R!report
    BY <1>5, <2>1 DEF R!Skip, R!disk
  <2>3. Ending(how, rows)
    BY <1>1, <2>1, <2>2, RenamedApart DEF Ending
  <2>4. Typed(sheets')
    BY <1>1, <2>2 DEF DiskTypes
  <2> QED BY <1>3, <2>2, <2>3, <2>4, EndingFolder
<1>6. CASE R!ReuseExport
  <2>1. PICK how, y : how = "reused" /\ y = sheets[R!Unsplit(R!Current[2])]
    OBVIOUS
  <2>2. /\ R!Return(how) /\ UNCHANGED R!setting /\ UNCHANGED <<sheetCancel, timeouts, outcome>>
        /\ UNCHANGED <<manifests, notices>> /\ UNCHANGED R!report
        /\ sheets' = R!Put(sheets, <<R!Current, 0>>, y) /\ R!Copyable
    BY <1>6, <2>1 DEF R!ReuseExport
  <2>3. Ending(how, rows)
    BY <1>1, <2>1, <2>2, PutApart DEF Ending
  <2>4. Typed(sheets')
    <3>1. y \in R!Content
      BY <1>1, <2>1, <2>2 DEF R!Copyable, DiskTypes, Typed
    <3>2. <<R!Current, 0>> \in R!File
      BY <1>2, <1>3 DEF R!File
    <3> QED BY <1>1, <2>2, <3>1, <3>2, PutTyped DEF DiskTypes
  <2> QED BY <1>3, <2>2, <2>3, <2>4, EndingFolder
<1> QED BY <1>5, <1>6

\* A call that comes to its end lists the part it was at.
LEMMA Closing ==
  ASSUME ReportInv, FolderInv, sheetStep = "rows",
         NEW CONSTANT q, q = R!Current, NEW CONSTANT rows, rows = R!Listed
  PROVE  rows \in Seq(R!Row) /\ R!RowsOf(rows) = total /\ Tells(sheets, sheetRun, q, rows)
<1>1. RunTypes /\ PartsInv /\ Rolling
  BY DEF FolderInv, Rolling
<1>2. PICK p : p = IF split THEN part ELSE 0
  OBVIOUS
<1>3. p \in R!Part /\ inPart \in 0..MaxRows /\ total \in 0..MaxRows /\ inPart <= total
  <2>1. MaxRows \in Nat /\ part \in R!Part /\ inPart \in 0..MaxRows /\ total \in 0..MaxRows /\ inPart <= total
    BY <1>1, CallBounds
  <2>2. 0 \in R!Part
    BY <2>1 DEF R!Part
  <2> QED BY <1>2, <2>1, <2>2
<1>4. /\ listed \in Seq(R!Row) /\ R!RowsOf(listed) = total - inPart
      /\ Tells(sheets, sheetRun, q, listed)
      /\ ~split => inPart = total
      /\ <<q, p>> \in DOMAIN sheets /\ sheets[<<q, p>>] = R!Holding
  BY <1>1, <1>2 DEF PartsInv, R!Out
<1>5. rows = Append(listed, <<p, inPart>>)
  BY <1>2, <1>4 DEF R!Listed, R!PartRow
<1>6. Tells(sheets, sheetRun, q, Append(listed, <<p, inPart>>))
  <2>1. R!Holding = [run |-> sheetRun, first |-> R!RowsOf(listed) + 1, rows |-> inPart]
    BY <1>4 DEF R!Holding
  <2> QED BY <1>3, <1>4, <2>1, TellsMore
<1>7. R!RowsOf(Append(listed, <<p, inPart>>)) = total
  <2>1. R!RowsOf(Append(listed, <<p, inPart>>)) = R!RowsOf(listed) + inPart
    BY <1>3, <1>4, RowsAppended
  <2> QED BY <1>3, <1>4, <2>1
<1>8. PICK X : X = R!Row
  OBVIOUS
<1>9. listed \in Seq(X) /\ <<p, inPart>> \in X
  BY <1>3, <1>4, <1>8 DEF R!Row
<1>10. rows \in Seq(X)
  BY <1>5, <1>9
<1> QED BY <1>5, <1>6, <1>7, <1>8, <1>10

\* With that the query ends, and what is not whole can be told.
LEMMA CloseFolder ==
  ASSUME ReportInv, FolderInv, sheetStep = "rows",
         NEW CONSTANT how, how \in {"written", "timed out", "cancelled"}, R!Close(how),
         \/ notices' = notices
         \/ how = "timed out" /\ notices' = notices \cup {R!Current},
         total = size \/ sheetCancel \/ R!Current \in notices', timeouts' \in 0..MaxTimeouts
  PROVE  FolderInv'
<1>1. DiskTypes /\ Working
  BY DEF FolderInv, Working
<1>2. PICK q, rows : q = R!Current /\ rows = R!Listed
  OBVIOUS
<1>3. /\ manifests' = IF <<"manifest", q>> \in locked THEN manifests ELSE R!Put(manifests, q, rows)
      /\ R!Return(how) /\ UNCHANGED R!setting /\ UNCHANGED <<sheetCancel, outcome, sheets>>
      /\ UNCHANGED R!report
  BY <1>2 DEF R!Close
<1>4. rows \in Seq(R!Row) /\ R!RowsOf(rows) = total /\ Tells(sheets, sheetRun, q, rows)
  BY <1>2, Closing
<1>5. Ending(how, rows)
  <2>1. \/ manifests' = manifests /\ <<"manifest", q>> \in locked
        \/ manifests' = R!Put(manifests, q, rows)
    BY <1>3
  <2>2. Tells(sheets', sheetRun, q, rows) /\ Apart
    BY <1>3, <1>4, RenamedApart
  <2>3. R!RowsOf(rows) = size \/ q \in notices' \/ sheetCancel
    BY <1>2, <1>4
  <2> QED BY <1>1, <1>2, <1>3, <1>4, <2>1, <2>2, <2>3 DEF Ending
<1>6. Typed(sheets')
  BY <1>1, <1>3 DEF DiskTypes
<1> QED BY <1>3, <1>5, <1>6, EndingFolder

\* The three ways a call comes to its end.
LEMMA ClosingFolder == ReportInv /\ FolderInv /\ (R!TimeOut \/ R!Cancelled \/ R!Done) => FolderInv'
<1> SUFFICES ASSUME ReportInv, FolderInv, R!TimeOut \/ R!Cancelled \/ R!Done PROVE FolderInv'
  OBVIOUS
<1>0. timeouts \in 0..MaxTimeouts /\ MaxTimeouts \in Nat
  BY ReportAssumptions DEF FolderInv, RunTypes, R!SizeAssumption
<1>1. CASE R!TimeOut
  <2>1. PICK how : how = "timed out"
    OBVIOUS
  <2>2. timeouts' \in 0..MaxTimeouts
    <3>1. timeouts < MaxTimeouts /\ timeouts' = timeouts + 1
      BY <1>1 DEF R!TimeOut
    <3> QED BY <1>0, <3>1
  <2>3. /\ sheetStep = "rows" /\ R!Close(how) /\ how \in {"written", "timed out", "cancelled"}
        /\ how = "timed out" /\ notices' = notices \cup {R!Current} /\ R!Current \in notices'
    BY <1>1, <2>1 DEF R!TimeOut
  <2> QED BY <2>2, <2>3, CloseFolder
<1>2. CASE R!Cancelled
  <2>1. PICK how : how = "cancelled"
    OBVIOUS
  <2>2. /\ sheetStep = "rows" /\ R!Close(how) /\ how \in {"written", "timed out", "cancelled"}
        /\ notices' = notices /\ sheetCancel /\ timeouts' \in 0..MaxTimeouts
    BY <1>0, <1>2, <2>1 DEF R!Cancelled
  <2> QED BY <2>2, CloseFolder
<1>3. CASE R!Done
  <2>1. PICK how : how = "written"
    OBVIOUS
  <2>2. /\ sheetStep = "rows" /\ R!Close(how) /\ how \in {"written", "timed out", "cancelled"}
        /\ notices' = notices /\ total = size /\ timeouts' \in 0..MaxTimeouts
    BY <1>0, <1>3, <2>1 DEF R!Done
  <2> QED BY <2>2, CloseFolder
<1> QED BY <1>1, <1>2, <1>3

-----------------------------------------------------------------------------
(* The specification, again.                                               *)

\* The folder is empty before the first run.
LEMMA FolderInit == R!Init => FolderInv
<1> SUFFICES ASSUME R!Init PROVE FolderInv
  OBVIOUS
<1>1. /\ sheetRun = 0 /\ profile = "thin" /\ platform = "ios" /\ size = 0 /\ sheetCancel = FALSE
      /\ locked = {} /\ handler = "none" /\ sheetStep = "idle" /\ step = 1 /\ split = FALSE
      /\ listed = <<>> /\ timeouts = 0 /\ queries = <<>> /\ sheets = <<>> /\ manifests = <<>>
      /\ notices = {} /\ index = <<>> /\ caseIndex = <<>> /\ outcome = "none"
  BY DEF R!Init
<1>2. DOMAIN queries = {} /\ DOMAIN sheets = {} /\ DOMAIN manifests = {} /\ DOMAIN index = {} /\ DOMAIN caseIndex = {}
  BY <1>1
<1>3. RunTypes
  <2>1. {MaxRows, MaxRuns, MaxTimeouts} \subseteq Nat
    BY ReportAssumptions DEF R!SizeAssumption
  <2>2. 0 \in 0..MaxRuns /\ 0 \in 0..MaxRows /\ 0 \in 0..MaxTimeouts
    BY <2>1
  <2>3. profile \in R!Profile /\ platform \in R!Source
    BY <1>1 DEF R!Profile, R!Source
  <2> QED BY <1>1, <1>2, <2>2, <2>3, FirstPlace DEF RunTypes
<1>4. DiskTypes
  BY <1>1, <1>2 DEF DiskTypes, Typed
<1>5. PartsInv
  BY <1>1 DEF PartsInv, Rolling
<1>6. EndedInv /\ ToldInv
  BY <1>2 DEF EndedInv, ToldInv, R!Finished
<1>7. FirstInv /\ AgreeInv
  BY <1>1, <1>2 DEF FirstInv, AgreeInv
<1> QED BY <1>3, <1>4, <1>5, <1>6, <1>7 DEF FolderInv

\* Every step of an export keeps what is known of the folder.
LEMMA FolderNext == ReportInv /\ FolderInv /\ R!Next => FolderInv'
<1> SUFFICES ASSUME ReportInv, FolderInv, R!Next PROVE FolderInv'
  OBVIOUS
<1>1. CASE \E k \in Packages, l \in {{}} \cup {{x} : x \in R!Lockable} : R!StartRun(k[1], k[2], k[3], l)
  BY <1>1, StartFolder
<1>2. CASE R!SuppressedRun \/ R!Crash
  BY <1>2, EmptyFolder
<1>3. CASE R!RequestCancel \/ R!Finish \/ R!FinishInterrupted
  BY <1>3, CancelFolder, FinishFolder, InterruptedFolder
<1>4. CASE R!Skip \/ R!ReuseExport \/ R!Begin \/ R!Open
  BY <1>4, UnaskedFolder, BeginFolder, OpenFolder
<1>5. CASE R!WriteRow \/ R!Fill \/ R!NextPart \/ R!NextPartFails
  BY <1>5, WriteRowFolder, FillFolder, NextPartFolder, NextPartFailsFolder
<1>6. CASE R!TimeOut \/ R!Cancelled \/ R!Done
  BY <1>6, ClosingFolder
<1> QED BY <1>1, <1>2, <1>3, <1>4, <1>5, <1>6 DEF R!Next

\* What is known of the folder says nothing of the other two sides.
FoldersInv == side = "report" => FolderInv

\* Where nothing of the packages changes, what is known of the folder does not.
LEMMA FolderStays == FolderInv /\ UNCHANGED reportOnly => FolderInv'
<1> SUFFICES ASSUME FolderInv, UNCHANGED reportOnly PROVE FolderInv'
  OBVIOUS
<1>1. /\ sheetRun' = sheetRun /\ profile' = profile /\ platform' = platform /\ size' = size
      /\ sheetCancel' = sheetCancel /\ locked' = locked /\ handler' = handler
      /\ sheetStep' = sheetStep /\ step' = step /\ split' = split /\ part' = part
      /\ inPart' = inPart /\ total' = total /\ listed' = listed /\ timeouts' = timeouts
      /\ queries' = queries /\ sheets' = sheets /\ manifests' = manifests
      /\ notices' = notices /\ index' = index /\ caseIndex' = caseIndex /\ outcome' = outcome
  BY DEF reportOnly
<1>2. /\ R!Plan' = R!Plan /\ R!Current' = R!Current
      /\ Working' = Working /\ Calling' = Calling /\ Rolling' = Rolling
  <2>1. UNCHANGED R!setting /\ UNCHANGED step
    BY <1>1 DEF R!setting
  <2> QED BY <1>1, <2>1, SamePlan DEF Working, Calling, Rolling
<1>3. R!Out' = R!Out /\ R!Holding' = R!Holding
  BY <1>1, <1>2 DEF R!Out, R!Holding
<1>4. R!Finished' = R!Finished /\ R!Indexed' = R!Indexed
  BY <1>1 DEF R!Finished, R!Indexed
<1>5. RunTypes'
  BY <1>1, <1>2 DEF FolderInv, RunTypes
<1>6. DiskTypes'
  BY <1>1 DEF FolderInv, DiskTypes, Typed
<1>7. PartsInv'
  BY <1>1, <1>2, <1>3 DEF FolderInv, PartsInv
<1>8. EndedInv'
  BY <1>1, <1>2 DEF FolderInv, EndedInv
<1>9. ToldInv'
  <2> SUFFICES ASSUME NEW q \in R!Finished' PROVE Told(q)'
    BY DEF ToldInv
  <2>1. Told(q)
    BY <1>4 DEF FolderInv, ToldInv
  <2> QED BY <1>1, <2>1 DEF Told
<1>10. FirstInv' /\ AgreeInv'
  BY <1>1, <1>4 DEF FolderInv, FirstInv, AgreeInv
<1> QED BY <1>5, <1>6, <1>7, <1>8, <1>9, <1>10 DEF FolderInv

\* The steps of the other sides leave the folder of the packages alone.
LEMMA FoldersAlways == RunsSpec => []FoldersInv
<1>1. RunsInit => FoldersInv
  BY FolderInit DEF RunsInit, FoldersInv
<1>2. SheetsInv /\ FoldersInv /\ [RunsNext]_runsVars => FoldersInv'
  <2> SUFFICES ASSUME SheetsInv, FoldersInv, [RunsNext]_runsVars PROVE FoldersInv'
    OBVIOUS
  <2>1. CASE PipelineStep \/ ViewsStep
    BY <2>1 DEF PipelineStep, ViewsStep, FoldersInv
  <2>2. CASE ReportStep
    BY <2>2, FolderNext DEF ReportStep, SheetsInv, FoldersInv
  <2>3. CASE UNCHANGED runsVars
    <3>1. UNCHANGED side /\ UNCHANGED reportOnly
      BY <2>3 DEF runsVars
    <3> QED BY <3>1, FolderStays DEF FoldersInv
  <2> QED BY <2>1, <2>2, <2>3 DEF RunsNext
<1> QED BY <1>1, <1>2, SheetsAlways, PTL DEF RunsSpec

\* The values of every variable of the packages.
LEMMA PackageTypes == ReportInv /\ FolderInv => R!TypeOK
<1> SUFFICES ASSUME ReportInv, FolderInv PROVE R!TypeOK
  OBVIOUS
<1>1. RunTypes /\ DiskTypes /\ PartsInv /\ CallInv
  BY DEF ReportInv, FolderInv
<1>2. step \in 1..(Len(ThinSheets \o FullSheets \o Samples) + 1)
  <2>1. PICK n \in Nat, m \in {Len(ThinSheets \o FullSheets \o Samples)} :
          n = Len(R!Plan) /\ m = Len(ThinSheets \o FullSheets \o Samples)
    BY PlanShort
  <2>2. m \in Nat /\ n <= m
    <3>1. ThinSheets \in Seq(Name) /\ FullSheets \in Seq(Name) /\ Samples \in Seq(Name)
      BY ReportAssumptions DEF R!NameAssumption
    <3>2. PICK all \in Seq(Name) : all = ThinSheets \o FullSheets \o Samples
      <4>1. PICK a \in Seq(Name), b \in Seq(Name), c \in Seq(Name) :
              a = ThinSheets /\ b = FullSheets /\ c = Samples
        BY <3>1
      <4>2. a \o b \o c \in Seq(Name)
        OBVIOUS
      <4> QED BY <4>1, <4>2, Zenon
    <3>3. Len(all) \in Nat
      OBVIOUS
    <3> QED BY <2>1, <3>2, <3>3, PlanShort
  <2>3. step \in 1..(n + 1)
    BY <1>1, <2>1 DEF RunTypes
  <2>4. step \in 1..(m + 1)
    BY <2>1, <2>2, <2>3
  <2> QED BY <2>1, <2>4
<1>3. MaxRows \in Nat /\ ChunkRows \in Nat \ {0}
  BY ReportAssumptions DEF R!SizeAssumption
<1>4. part \in 1..(MaxRows + 1) /\ inPart \in 0..MaxRows /\ total \in 0..MaxRows /\ inPart <= ChunkRows
  <2>1. CASE Rolling
    BY <1>1, <2>1, CallBounds DEF PartsInv
  <2>2. CASE ~Rolling
    <3>1. part = 1 /\ inPart = 0 /\ total = 0
      BY <1>1, <2>2 DEF CallInv, Rolling
    <3> QED BY <1>3, <3>1
  <2> QED BY <2>1, <2>2
<1>5. split \in BOOLEAN /\ listed \in Seq(R!Row)
  <2>1. CASE Rolling
    BY <1>1, <2>1 DEF PartsInv
  <2>2. CASE ~Rolling
    BY <1>1, <2>2 DEF PartsInv
  <2> QED BY <2>1, <2>2
<1>6. /\ sheetRun \in 0..MaxRuns /\ profile \in R!Profile /\ platform \in R!Source
      /\ size \in 0..MaxRows /\ sheetCancel \in BOOLEAN
      /\ locked \in SUBSET (({"csv"} \X R!File) \cup ({"manifest"} \X R!Query))
      /\ handler \in {"none", "live", "dead"}
      /\ sheetStep \in {"idle", "next", "open", "rows", "roll", "finish"}
      /\ timeouts \in 0..MaxTimeouts /\ DOMAIN index \subseteq Name /\ DOMAIN caseIndex \subseteq Name
      /\ outcome \in {"none", "running", "ok", "suppressed", "cancelled", "failed", "crashed"}
      /\ handler = "live" => sheetStep \in {"open", "rows", "roll"}
  BY <1>1 DEF RunTypes, Calling
<1>7. /\ DOMAIN queries \subseteq R!Query
      /\ \A q \in DOMAIN queries : queries[q] \in {"written", "timed out", "cancelled", "skipped", "reused"}
      /\ DOMAIN sheets \subseteq R!File /\ \A f \in DOMAIN sheets : sheets[f] \in R!Content
      /\ DOMAIN manifests \subseteq R!Query /\ \A q \in DOMAIN manifests : manifests[q] \in Seq(R!Row)
      /\ notices \subseteq R!Query
  BY <1>1 DEF DiskTypes, Typed
<1> QED BY <1>2, <1>4, <1>5, <1>6, <1>7 DEF R!TypeOK

\* The indexes after a successful run.
LEMMA IndexTells == FolderInv => R!IndexAgrees
<1> SUFFICES ASSUME FolderInv, outcome = "ok" PROVE R!IndexAgrees
  BY DEF R!IndexAgrees
<1>1. index = R!Indexed /\ caseIndex = R!Indexed
  BY DEF FolderInv, AgreeInv
<1>2. ASSUME NEW n \in Name, <<"export", n>> \in R!Finished
      PROVE  n \in DOMAIN index /\ (index[n] = size \/ <<"export", n>> \in notices \/ sheetCancel)
  <2>1. Told(<<"export", n>>)
    BY <1>2 DEF FolderInv, ToldInv
  <2>2. n \in DOMAIN index /\ index[n] = R!RowsOf(manifests[<<"export", n>>])
    BY <1>1, <2>1 DEF Told, R!Indexed
  <2> QED BY <2>1, <2>2 DEF Told
<1>3. ASSUME sheetRun = 1, NEW n \in DOMAIN index PROVE <<"export", n>> \in DOMAIN queries
  <2>1. <<"export", n>> \in DOMAIN manifests
    BY <1>1, <1>3 DEF R!Indexed
  <2> QED BY <1>3, <2>1 DEF FolderInv, FirstInv
<1> QED BY <1>1, <1>2, <1>3 DEF R!IndexAgrees

\* Whatever earlier runs, finished, cancelled or crashed, left in the folder, the
\* manifest of a query that this run has finished describes the files beside it, each
\* with the rows it counts, across the renaming of the first part (exportQuery, lines
\* 3357-3418 of sqlite_exporter.cpp).  A result that is cut short can be told, and both
\* indexes agree with the manifests (writeExportIndexFile).
THEOREM ManifestsTell == RunsSpec => []ManifestTells
<1>1. SheetsInv /\ FoldersInv => ManifestTells
  <2> SUFFICES ASSUME ReportInv, FolderInv PROVE R!ManifestTells
    BY DEF SheetsInv, FoldersInv, ManifestTells
  <2>1. R!TypeOK /\ R!IndexAgrees
    BY PackageTypes, IndexTells
  <2>2. ASSUME NEW q \in R!Finished PROVE R!Described(q)
    <3>1. PICK m : m = manifests[q]
      OBVIOUS
    <3>2. Tells(sheets, sheetRun, q, m)
      BY <3>1 DEF FolderInv, ToldInv, Told
    <3>3. m \in Seq(R!Row)
      BY <3>1 DEF FolderInv, ToldInv, Told, DiskTypes
    <3>4. DOMAIN m = 1..Len(m)
      BY <3>3
    <3> QED BY <3>1, <3>2, <3>4 DEF R!Described, Tells
  <2>3. ASSUME NEW q \in R!Finished, R!RowsOf(manifests[q]) < size PROVE q \in notices \/ sheetCancel
    <3>1. R!RowsOf(manifests[q]) = size \/ q \in notices \/ sheetCancel
      BY DEF FolderInv, ToldInv, Told
    <3>2. PICK n : n = R!RowsOf(manifests[q])
      OBVIOUS
    <3>3. size \in Int
      BY ReportAssumptions DEF FolderInv, RunTypes, R!SizeAssumption
    <3>4. n # size
      BY <2>3, <3>2, <3>3
    <3> QED BY <3>1, <3>2, <3>4, Zenon
  <2>4. ASSUME sheetRun = 1, NEW q \in R!Finished \cap notices PROVE queries[q] = "timed out"
    <3>1. outcome # "crashed"
      BY <2>4 DEF FolderInv, FirstInv, R!Finished
    <3> QED BY <2>4, <3>1 DEF FolderInv, FirstInv
  <2> QED BY <2>1, <2>2, <2>3, <2>4 DEF R!ManifestTells
<1> QED BY <1>1, SheetsAlways, FoldersAlways, PTL
=============================================================================
