------------------------------ MODULE PlanProofs ------------------------------
(***************************************************************************)
(* Proofs about the planner and its plans, for every intent: the steps     *)
(* that are built have the shape their dependencies suppose, so a client   *)
(* who works off any plan begins no step too early and none too late.      *)
(***************************************************************************)
EXTENDS Plan, WellFoundedInduction, TLAPS

-----------------------------------------------------------------------------
(* Loops                                                                   *)

\* What holds of 0 and of the successor of each number it holds of holds of
\* all of them.
LEMMA CountingUp ==
    ASSUME NEW S, 0 \in S, \A n \in Nat : n \in S => n + 1 \in S
    PROVE  Nat \subseteq S
<1> DEFINE Below == {p \in Nat \X Nat : p[1] < p[2]}
           Rest == Nat \ S
<1> SUFFICES ASSUME Rest # {} PROVE FALSE
    OBVIOUS
<1>1. IsWellFoundedOn(OpToRel(<, Nat), Nat)
    BY NatLessThanWellFounded
<1>2. OpToRel(<, Nat) = Below
    BY DEF OpToRel
<1> HIDE DEF Below
<1>3. \E m \in Rest : \A n \in Rest : <<n, m>> \notin Below
    BY <1>1, <1>2, WFMin, Zenon
<1>4. PICK m \in Rest : \A n \in Rest : <<n, m>> \notin Below
    BY <1>3
<1>5. m \in Nat \ {0} /\ m - 1 \in Nat /\ m - 1 \notin S
    BY <1>4
<1>6. m - 1 \in Rest /\ <<m - 1, m>> \in Below
    BY <1>5 DEF Below
<1> QED
    BY <1>4, <1>6

\* f has what a loop has computed after each round, up to the last.
Loop(f, last, start, step) ==
    /\ f[0] = start
    /\ \A n \in 1 .. last : f[n] = step[n][f[n-1]]

\* A loop over the numbers from 1 to top computes something.
LEMMA LoopEnds ==
    ASSUME NEW top \in Nat, NEW T, NEW start \in T,
           NEW step \in [1 .. top -> [T -> T]]
    PROVE  \E f \in [0 .. top -> T] : Loop(f, top, start, step)
<1> USE DEF Loop
<1> DEFINE Goes(k) == \E f \in [0 .. k -> T] : Loop(f, k, start, step)
           S == {k \in Nat : k <= top => Goes(k)}
<1>1. 0 \in S
    <2> DEFINE g == [n \in 0 .. 0 |-> start]
    <2>1. g \in [0 .. 0 -> T]
        OBVIOUS
    <2>2. g[0] = start /\ 1 .. 0 = {}
        OBVIOUS
    <2> HIDE DEF g
    <2>3. Goes(0)
        BY <2>1, <2>2
    <2> QED
        BY <2>3
<1>2. ASSUME NEW k \in Nat, k \in S PROVE k + 1 \in S
    <2> SUFFICES ASSUME k + 1 <= top PROVE Goes(k + 1)
        OBVIOUS
    <2>1. PICK f \in [0 .. k -> T] : Loop(f, k, start, step)
        BY <1>2
    <2> DEFINE next == step[k + 1][f[k]]
               g == [n \in 0 .. k + 1 |-> IF n <= k THEN f[n] ELSE next]
    <2>2. next \in T
        <3>1. k + 1 \in 1 .. top /\ f[k] \in T
            BY <2>1
        <3> QED
            BY <3>1
    <2>3. g \in [0 .. k + 1 -> T]
        <3> HIDE DEF next
        <3> QED
            BY <2>1, <2>2
    <2>4. g[0] = start /\ g[k + 1] = next /\ g[k] = f[k]
        <3> HIDE DEF next
        <3> QED
            BY <2>1
    <2>5. ASSUME NEW n \in 1 .. k
          PROVE  g[n] = step[n][g[n-1]]
        <3>1. g[n] = f[n] /\ n - 1 \in 0 .. k /\ g[n-1] = f[n-1]
            OBVIOUS
        <3> HIDE DEF g
        <3> QED
            BY <2>1, <3>1
    <2>6. \A n \in 1 .. k + 1 : n \in 1 .. k \/ n = k + 1
        OBVIOUS
    <2>7. (k + 1) - 1 = k
        OBVIOUS
    <2> HIDE DEF g
    <2>8. g[k + 1] = step[k + 1][g[(k + 1) - 1]]
        BY <2>4, <2>7
    <2> QED
        BY <2>3, <2>4, <2>5, <2>6, <2>8
<1> HIDE DEF Goes
<1>3. Nat \subseteq S
    <2> HIDE DEF S
    <2> QED
        BY <1>1, <1>2, CountingUp
<1>4. Goes(top)
    BY <1>3
<1> QED
    BY <1>4 DEF Goes

-----------------------------------------------------------------------------
(* The applications that are found                                         *)

\* The catalogue has nine applications, each with a name of its own.
LEMMA CatalogueNames ==
    /\ Len(Catalogue) = 9 /\ DOMAIN Catalogue = 1 .. 9
    /\ \A n \in 1 .. 9 : Catalogue[n].name # NoApp
    /\ \A m, n \in 1 .. 9 : Catalogue[m].name = Catalogue[n].name => m = n
<1>1. Len(Catalogue) = 9 /\ DOMAIN Catalogue = 1 .. 9
    BY DEF Catalogue
<1>2. \A n \in 1 .. 9 : n = 1 \/ n = 2 \/ n = 3 \/ n = 4 \/ n = 5 \/ n = 6
                        \/ n = 7 \/ n = 8 \/ n = 9
    OBVIOUS
<1>4. /\ Catalogue[1].name = "prometheus" /\ Catalogue[2].name = "grafana"
      /\ Catalogue[3].name = "redis" /\ Catalogue[4].name = "cert-manager"
      /\ Catalogue[5].name = "ingress-nginx" /\ Catalogue[6].name = "istiod"
      /\ Catalogue[7].name = "loki" /\ Catalogue[8].name = "velero"
      /\ Catalogue[9].name = "argocd"
    BY DEF Catalogue, App
<1>5. \A n \in 1 .. 9 : Catalogue[n].name # NoApp
    BY <1>2, <1>4 DEF NoApp
<1>6. \A m, n \in 1 .. 9 : Catalogue[m].name = Catalogue[n].name => m = n
    BY <1>2, <1>4
<1> QED
    BY <1>1, <1>5, <1>6

\* Those of the first n applications of the catalogue that were found.
FoundAmong(n, apps) ==
    /\ apps \in Seq({Catalogue[i] : i \in 1 .. n})
    /\ \A i, j \in DOMAIN apps : apps[i].name = apps[j].name => i = j

\* Found is the loop over the catalogue (planner, detectApps).
LEMMA FoundLoop ==
    ASSUME NEW text
    PROVE  Found(text) =
               [n \in 0 .. 9 |->
                   IF n = 0 THEN <<>>
                   ELSE IF Catalogue[n].keywords \cap text = {}
                        THEN Found(text)[n-1]
                        ELSE Append(Found(text)[n-1], Catalogue[n])]
<1> DEFINE T == Seq({Catalogue[i] : i \in 1 .. 9})
           Step(n, apps) == IF Catalogue[n].keywords \cap text = {} THEN apps
                            ELSE Append(apps, Catalogue[n])
           step == [n \in 1 .. 9 |-> [apps \in T |-> Step(n, apps)]]
           Body(f) == [n \in 0 .. 9 |->
                          IF n = 0 THEN <<>> ELSE Step(n, f[n-1])]
<1>1. <<>> \in T
    OBVIOUS
<1>2. step \in [1 .. 9 -> [T -> T]]
    <2>1. ASSUME NEW n \in 1 .. 9, NEW apps \in T PROVE Step(n, apps) \in T
        <3>1. Append(apps, Catalogue[n]) \in T
            OBVIOUS
        <3> QED
            BY <3>1
    <2> HIDE DEF Step, T
    <2> QED
        BY <2>1
<1>3. PICK f \in [0 .. 9 -> T] : Loop(f, 9, <<>>, step)
    <2> HIDE DEF step, T
    <2>1. 9 \in Nat
        OBVIOUS
    <2> QED
        BY <1>1, <1>2, <2>1, LoopEnds
<1>4. f = Body(f)
    <2>1. ASSUME NEW n \in 0 .. 9, n # 0
          PROVE  step[n][f[n-1]] = Step(n, f[n-1])
        <3>1. n \in 1 .. 9 /\ f[n-1] \in T
            <4> HIDE DEF T
            <4> QED
                BY <2>1
        <3> HIDE DEF T, Step
        <3> QED
            BY <3>1
    <2> HIDE DEF step, Step, T
    <2> QED
        BY <1>3, <2>1 DEF Loop
<1>5. Found(text) = CHOOSE g : g = Body(g)
    BY CatalogueNames, Zenon DEF Found
<1> HIDE DEF Body
<1>6. Found(text) = Body(Found(text))
    BY <1>4, <1>5
<1> QED
    BY <1>6 DEF Body

\* Each application that is found has been found once (planner, detectApps).
LEMMA AppsFound ==
    ASSUME NEW text
    PROVE  FoundAmong(9, DetectApps(text))
<1> DEFINE S == {n \in Nat : n <= 9 => FoundAmong(n, Found(text)[n])}
<1>1. 0 \in S
    <2>1. Found(text)[0] = <<>>
        BY FoundLoop
    <2>2. <<>> \in Seq({Catalogue[i] : i \in 1 .. 0})
        OBVIOUS
    <2>3. DOMAIN <<>> = {}
        OBVIOUS
    <2> QED
        BY <2>1, <2>2, <2>3 DEF FoundAmong
<1>2. ASSUME NEW n \in Nat, n \in S PROVE n + 1 \in S
    <2> SUFFICES ASSUME n + 1 <= 9 PROVE FoundAmong(n + 1, Found(text)[n + 1])
        OBVIOUS
    <2> DEFINE apps == Found(text)[n]
               next == Catalogue[n + 1]
    <2>1. FoundAmong(n, apps)
        BY <1>2
    <2>2. Found(text)[n + 1] \in {apps, Append(apps, next)}
        <3>1. n + 1 \in 0 .. 9 /\ n + 1 # 0 /\ (n + 1) - 1 = n
            OBVIOUS
        <3> QED
            BY <3>1, FoundLoop, Zenon
    <2> DEFINE More == {Catalogue[i] : i \in 1 .. n + 1}
    <2>3. apps \in Seq(More) /\ next \in More
        <3>1. {Catalogue[i] : i \in 1 .. n} \subseteq More /\ next \in More
            OBVIOUS
        <3> HIDE DEF More, apps
        <3> QED
            BY <2>1, <3>1 DEF FoundAmong
    <2>4. \A i \in DOMAIN apps : apps[i].name # next.name
        <3>1. \A i \in DOMAIN apps : \E m \in 1 .. n : apps[i] = Catalogue[m]
            <4> HIDE DEF apps
            <4> QED
                BY <2>1 DEF FoundAmong
        <3>2. \A m \in 1 .. n : m \in 1 .. 9 /\ n + 1 \in 1 .. 9 /\ m # n + 1
            OBVIOUS
        <3> HIDE DEF apps
        <3> QED
            BY <3>1, <3>2, CatalogueNames
    <2> HIDE DEF apps, next, More
    <2>5. FoundAmong(n + 1, apps)
        BY <2>1, <2>3 DEF FoundAmong, More
    <2>6. FoundAmong(n + 1, Append(apps, next))
        <3>1. Append(apps, next) \in Seq(More)
            BY <2>3
        <3>2. /\ DOMAIN Append(apps, next) = 1 .. Len(apps) + 1
              /\ DOMAIN apps = 1 .. Len(apps) /\ Len(apps) \in Nat
              /\ \A i \in DOMAIN apps : Append(apps, next)[i] = apps[i]
              /\ Append(apps, next)[Len(apps) + 1] = next
            BY <2>3
        <3>3. \A i \in 1 .. Len(apps) + 1 : i \in DOMAIN apps
                                            \/ i = Len(apps) + 1
            BY <3>2
        <3> QED
            BY <2>1, <2>4, <3>1, <3>2, <3>3 DEF FoundAmong, More
    <2> QED
        BY <2>2, <2>5, <2>6
<1> HIDE DEF S
<1>3. Nat \subseteq S
    BY <1>1, <1>2, CountingUp
<1>4. 9 \in S
    BY <1>3
<1> QED
    BY <1>4, CatalogueNames DEF S, DetectApps

-----------------------------------------------------------------------------
(* The steps that are built                                                *)

AppNames == {NoApp} \cup {Catalogue[i].name : i \in DOMAIN Catalogue}
PlanStep == [type : StepType, app : AppNames, status : StepStatus,
             dependsOn : SUBSET (StepType \X AppNames)]

Members(s) == {s[i] : i \in DOMAIN s}
OwnIds(s) == \A i, j \in DOMAIN s : Id(s[i]) = Id(s[j]) => i = j

\* Lists of steps whose ids differ are put one after the other.
LEMMA Joined ==
    ASSUME NEW s \in Seq(PlanStep), NEW t \in Seq(PlanStep),
           OwnIds(s), OwnIds(t),
           \A a \in Members(s), b \in Members(t) : Id(a) # Id(b)
    PROVE  /\ s \o t \in Seq(PlanStep) /\ OwnIds(s \o t)
           /\ Members(s \o t) = Members(s) \cup Members(t)
<1> DEFINE m == Len(s)
           n == Len(t)
<1>1. /\ m \in Nat /\ n \in Nat /\ DOMAIN s = 1 .. m /\ DOMAIN t = 1 .. n
      /\ s \o t \in Seq(PlanStep)
      /\ DOMAIN (s \o t) = 1 .. m + n
    OBVIOUS
<1>2. \A i \in 1 .. m : (s \o t)[i] = s[i] /\ i \in 1 .. m + n
    BY <1>1
<1>3. \A i \in 1 .. n : (s \o t)[m + i] = t[i] /\ m + i \in 1 .. m + n
    BY <1>1
<1>4. \A i \in 1 .. m + n :
          \/ i \in 1 .. m
          \/ i - m \in 1 .. n /\ m + (i - m) = i
    BY <1>1
<1> HIDE DEF m, n
<1> DEFINE st == s \o t
<1> HIDE DEF st
<1>5. \A i \in 1 .. m + n :
          \/ i \in 1 .. m /\ st[i] = s[i]
          \/ i - m \in 1 .. n /\ st[i] = t[i - m]
    BY <1>2, <1>3, <1>4, Zenon DEF st
<1>6. Members(st) = Members(s) \cup Members(t)
    <2>1. Members(st) \subseteq Members(s) \cup Members(t)
        BY <1>1, <1>5, Zenon DEF Members, st
    <2>2. Members(s) \subseteq Members(st)
        BY <1>1, <1>2, Zenon DEF Members, st
    <2>3. Members(t) \subseteq Members(st)
        BY <1>1, <1>3, Zenon DEF Members, st
    <2> QED
        BY <2>1, <2>2, <2>3
<1>7. OwnIds(st)
    <2> SUFFICES ASSUME NEW i \in 1 .. m + n, NEW j \in 1 .. m + n,
                        Id(st[i]) = Id(st[j])
                 PROVE  i = j
        BY <1>1 DEF OwnIds, st
    <2>1. CASE i \in 1 .. m /\ j \in 1 .. m
        BY <1>1, <1>2, <2>1 DEF OwnIds, st
    <2>2. CASE i \in 1 .. m /\ ~(j \in 1 .. m)
        <3>1. st[i] \in Members(s) /\ st[j] \in Members(t)
            BY <1>1, <1>2, <1>5, <2>2 DEF Members, st
        <3> QED
            BY <3>1
    <2>3. CASE ~(i \in 1 .. m) /\ j \in 1 .. m
        <3>1. st[j] \in Members(s) /\ st[i] \in Members(t)
            BY <1>1, <1>2, <1>5, <2>3 DEF Members, st
        <3> QED
            BY <3>1
    <2>4. CASE ~(i \in 1 .. m) /\ ~(j \in 1 .. m)
        <3>1. i - m = j - m
            BY <1>1, <1>5, <2>4 DEF OwnIds
        <3> QED
            BY <1>1, <3>1
    <2> QED
        BY <2>1, <2>2, <2>3, <2>4
<1> QED
    BY <1>1, <1>6, <1>7 DEF st

\* A list of one step, and one of a step that is there or not.
LEMMA Single ==
    ASSUME NEW x \in PlanStep
    PROVE  /\ <<x>> \in Seq(PlanStep) /\ OwnIds(<<x>>) /\ Members(<<x>>) = {x}
           /\ \A wanted : /\ Optional(wanted, x) \in Seq(PlanStep)
                          /\ OwnIds(Optional(wanted, x))
                          /\ Members(Optional(wanted, x)) =
                                 IF wanted THEN {x} ELSE {}
<1>1. <<x>> \in Seq(PlanStep) /\ DOMAIN <<x>> = 1 .. 1 /\ <<x>>[1] = x
    OBVIOUS
<1>2. \A i \in 1 .. 1 : i = 1
    OBVIOUS
<1>3. <<x>> \in Seq(PlanStep) /\ OwnIds(<<x>>) /\ Members(<<x>>) = {x}
    BY <1>1, <1>2 DEF OwnIds, Members
<1>4. <<>> \in Seq(PlanStep) /\ DOMAIN <<>> = {}
    OBVIOUS
<1>5. <<>> \in Seq(PlanStep) /\ OwnIds(<<>>) /\ Members(<<>>) = {}
    BY <1>4 DEF OwnIds, Members
<1> QED
    BY <1>3, <1>5, Zenon DEF Optional

\* A step with an id of its own is put at the end of a list.
LEMMA JoinedOne ==
    ASSUME NEW s \in Seq(PlanStep), OwnIds(s), NEW x \in PlanStep,
           \A a \in Members(s) : Id(a) # Id(x)
    PROVE  /\ s \o <<x>> \in Seq(PlanStep) /\ OwnIds(s \o <<x>>)
           /\ Members(s \o <<x>>) = Members(s) \cup {x}
           /\ \A wanted : /\ s \o Optional(wanted, x) \in Seq(PlanStep)
                          /\ OwnIds(s \o Optional(wanted, x))
                          /\ Members(s \o Optional(wanted, x)) =
                                 Members(s) \cup IF wanted THEN {x} ELSE {}
<1>1. ASSUME NEW t \in Seq(PlanStep), OwnIds(t), Members(t) \subseteq {x}
      PROVE  /\ s \o t \in Seq(PlanStep) /\ OwnIds(s \o t)
             /\ Members(s \o t) = Members(s) \cup Members(t)
    <2>1. \A a \in Members(s), b \in Members(t) : Id(a) # Id(b)
        BY <1>1
    <2> QED
        BY <1>1, <2>1, Joined
<1>2. /\ s \o <<x>> \in Seq(PlanStep) /\ OwnIds(s \o <<x>>)
      /\ Members(s \o <<x>>) = Members(s) \cup {x}
    <2> DEFINE t == <<x>>
    <2>1. t \in Seq(PlanStep) /\ OwnIds(t) /\ Members(t) = {x}
        BY Single
    <2> HIDE DEF t
    <2>2. /\ s \o t \in Seq(PlanStep) /\ OwnIds(s \o t)
          /\ Members(s \o t) = Members(s) \cup Members(t)
        BY <1>1, <2>1
    <2> QED
        BY <2>1, <2>2, Zenon DEF t
<1>3. ASSUME NEW wanted
      PROVE  /\ s \o Optional(wanted, x) \in Seq(PlanStep)
             /\ OwnIds(s \o Optional(wanted, x))
             /\ Members(s \o Optional(wanted, x)) =
                    Members(s) \cup IF wanted THEN {x} ELSE {}
    <2> DEFINE t == Optional(wanted, x)
    <2>1. /\ t \in Seq(PlanStep) /\ OwnIds(t)
          /\ Members(t) = IF wanted THEN {x} ELSE {}
        BY Single, Zenon
    <2> HIDE DEF t
    <2>2. Members(t) \subseteq {x}
        BY <2>1
    <2>3. /\ s \o t \in Seq(PlanStep) /\ OwnIds(s \o t)
          /\ Members(s \o t) = Members(s) \cup Members(t)
        BY <1>1, <2>1, <2>2
    <2> QED
        BY <2>1, <2>3, Zenon DEF t
<1> QED
    BY <1>2, <1>3, Zenon

\* The steps of one application, and the one before all of them.
NamespaceStep == NewStep("CREATE_NAMESPACE", NoApp, {})
ValidateStep(app) == NewStep("INSTALL_CRDS", app.name, {Namespace})
StorageStep(app) == NewStep("CONFIGURE_STORAGE", app.name, {Validated(app)})
ChartType(action) ==
    IF action = "upgrade" THEN "UPGRADE_CHART" ELSE "INSTALL_CHART"
Released(action, app) == <<ChartType(action), app.name>>
ChartStep(action, app) ==
    NewStep(ChartType(action), app.name,
            {Validated(app)} \cup IF app.persistence THEN {Stored(app)} ELSE {})
IngressStep(action, app) ==
    NewStep("CONFIGURE_INGRESS", app.name, {Released(action, app)})
HealthStep(action, app) ==
    NewStep("VALIDATE_READINESS", app.name, {Released(action, app)})

Block(action, app) ==
    {ValidateStep(app), ChartStep(action, app), HealthStep(action, app)}
    \cup (IF app.persistence THEN {StorageStep(app)} ELSE {})
    \cup (IF app.ingress THEN {IngressStep(action, app)} ELSE {})

\* They are what AppSteps has, each with an id of its own (planner,
\* buildSteps).
LEMMA AppBlock ==
    ASSUME NEW action, NEW app, app.name \in AppNames
    PROVE  /\ AppSteps(action, app) \in Seq(PlanStep)
           /\ OwnIds(AppSteps(action, app))
           /\ Members(AppSteps(action, app)) = Block(action, app)
<1> DEFINE v == ValidateStep(app)
           st == StorageStep(app)
           ch == ChartStep(action, app)
           in == IngressStep(action, app)
           h == HealthStep(action, app)
<1>1. Namespace \in StepType \X AppNames
    BY DEF Namespace, AppNames, StepType
<1>2. /\ Validated(app) \in StepType \X AppNames
      /\ Stored(app) \in StepType \X AppNames
      /\ Released(action, app) \in StepType \X AppNames
    BY DEF Validated, Stored, Released, ChartType, StepType
<1>3. \A type \in StepType : \A needed \in SUBSET (StepType \X AppNames) :
          NewStep(type, app.name, needed) \in PlanStep
    BY DEF NewStep, PlanStep, StepStatus
<1>4. /\ v \in PlanStep /\ st \in PlanStep /\ ch \in PlanStep
      /\ in \in PlanStep /\ h \in PlanStep
    BY <1>1, <1>2, <1>3
    DEF ValidateStep, StorageStep, ChartStep, IngressStep, HealthStep,
        ChartType, StepType
<1>5. /\ Id(v)[1] = "INSTALL_CRDS" /\ Id(st)[1] = "CONFIGURE_STORAGE"
      /\ Id(ch)[1] \in {"INSTALL_CHART", "UPGRADE_CHART"}
      /\ Id(in)[1] = "CONFIGURE_INGRESS" /\ Id(h)[1] = "VALIDATE_READINESS"
    BY DEF Id, NewStep, ValidateStep, StorageStep, ChartStep, IngressStep,
           HealthStep, ChartType
<1>6. AppSteps(action, app) =
          <<v>> \o Optional(app.persistence, st) \o <<ch>>
          \o Optional(app.ingress, in) \o <<h>>
    BY DEF AppSteps, StepsNeeding, ValidateStep, StorageStep, ChartStep,
           IngressStep, HealthStep, ChartType, Released
<1> HIDE DEF v, st, ch, in, h
<1> DEFINE s1 == <<v>>
           s2 == s1 \o Optional(app.persistence, st)
           s3 == s2 \o <<ch>>
           s4 == s3 \o Optional(app.ingress, in)
<1>7. /\ s2 \in Seq(PlanStep) /\ OwnIds(s2)
      /\ Members(s2) = {v} \cup (IF app.persistence THEN {st} ELSE {})
    <2>1. s1 \in Seq(PlanStep) /\ OwnIds(s1) /\ Members(s1) = {v}
        BY <1>4, Single, Zenon
    <2>2. \A a \in Members(s1) : Id(a) # Id(st)
        BY <1>5, <2>1
    <2> HIDE DEF s1
    <2>3. /\ s2 \in Seq(PlanStep) /\ OwnIds(s2)
          /\ Members(s2) =
                 Members(s1) \cup IF app.persistence THEN {st} ELSE {}
        BY <1>4, <2>1, <2>2, JoinedOne, Zenon
    <2> QED
        BY <2>1, <2>3, Zenon
<1> HIDE DEF s2
<1>8. /\ s3 \in Seq(PlanStep) /\ OwnIds(s3)
      /\ Members(s3) = Members(s2) \cup {ch}
    <2>1. \A a \in Members(s2) : Id(a) # Id(ch)
        BY <1>5, <1>7
    <2> QED
        BY <1>4, <1>7, <2>1, JoinedOne, Zenon
<1> HIDE DEF s3
<1>9. /\ s4 \in Seq(PlanStep) /\ OwnIds(s4)
      /\ Members(s4) = Members(s3) \cup (IF app.ingress THEN {in} ELSE {})
    <2>1. \A a \in Members(s3) : Id(a) # Id(in)
        BY <1>5, <1>7, <1>8
    <2> QED
        BY <1>4, <1>8, <2>1, JoinedOne, Zenon
<1> HIDE DEF s4
<1>10. /\ s4 \o <<h>> \in Seq(PlanStep) /\ OwnIds(s4 \o <<h>>)
       /\ Members(s4 \o <<h>>) = Members(s4) \cup {h}
    <2>1. \A a \in Members(s4) : Id(a) # Id(h)
        BY <1>5, <1>7, <1>8, <1>9
    <2> QED
        BY <1>4, <1>9, <2>1, JoinedOne, Zenon
<1>11. AppSteps(action, app) = s4 \o <<h>>
    BY <1>6 DEF s1, s2, s3, s4
<1>12. Block(action, app) =
           {v, ch, h} \cup (IF app.persistence THEN {st} ELSE {})
           \cup (IF app.ingress THEN {in} ELSE {})
    BY Zenon DEF Block, v, st, ch, in, h
<1>13. Members(s4 \o <<h>>) = Block(action, app)
    BY <1>7, <1>8, <1>9, <1>10, <1>12
<1> QED
    BY <1>10, <1>11, <1>13

-----------------------------------------------------------------------------
(* Their dependencies                                                      *)

Precedes(a, b) ==
    a.app \in {NoApp, b.app} /\ Stage(a.type) < Stage(b.type)

\* Each dependency is a step that comes before, and all that comes before is
\* depended on, directly or through what is.
Connected(R) ==
    /\ \A b \in R : \A d \in b.dependsOn :
           \E a \in R : Id(a) = d /\ Precedes(a, b)
    /\ \A a, b \in R :
           Precedes(a, b) => \E c \in R : /\ Id(c) \in b.dependsOn
                                          /\ c = a \/ Precedes(a, c)

\* The steps of a block belong to its application and have not begun.
LEMMA BlockOfApp ==
    ASSUME NEW action, NEW app
    PROVE  /\ \A b \in Block(action, app) :
                  b.status = "PENDING" /\ b.app = app.name
           /\ NamespaceStep.app = NoApp /\ NamespaceStep.dependsOn = {}
           /\ NamespaceStep.status = "PENDING"
BY DEF Block, NamespaceStep, ValidateStep, StorageStep, ChartStep,
       IngressStep, HealthStep, NewStep

\* The steps of a block by stage, id and dependencies.
LEMMA BlockSteps ==
    ASSUME NEW action, NEW app
    PROVE  /\ Id(NamespaceStep) = Namespace
           /\ Id(ValidateStep(app)) = Validated(app)
           /\ ValidateStep(app).dependsOn = {Namespace}
           /\ Id(StorageStep(app)) = Stored(app)
           /\ StorageStep(app).dependsOn = {Validated(app)}
           /\ Id(ChartStep(action, app)) = Released(action, app)
           /\ ChartStep(action, app).dependsOn =
                  {Validated(app)}
                  \cup IF app.persistence THEN {Stored(app)} ELSE {}
           /\ IngressStep(action, app).dependsOn = {Released(action, app)}
           /\ HealthStep(action, app).dependsOn = {Released(action, app)}
           /\ Stage(NamespaceStep.type) = 0
           /\ Stage(ValidateStep(app).type) = 1
           /\ Stage(StorageStep(app).type) = 2
           /\ Stage(ChartStep(action, app).type) = 3
           /\ Stage(IngressStep(action, app).type) = 4
           /\ Stage(HealthStep(action, app).type) = 4
<1> USE DEF NamespaceStep, ValidateStep, StorageStep, ChartStep, IngressStep,
            HealthStep, NewStep
<1>1. /\ Id(NamespaceStep) = Namespace
      /\ Id(ValidateStep(app)) = Validated(app)
      /\ Id(StorageStep(app)) = Stored(app)
      /\ Id(ChartStep(action, app)) = Released(action, app)
    BY DEF Id, Namespace, Validated, Stored, Released
<1>2. /\ ValidateStep(app).dependsOn = {Namespace}
      /\ StorageStep(app).dependsOn = {Validated(app)}
      /\ ChartStep(action, app).dependsOn =
             {Validated(app)}
             \cup IF app.persistence THEN {Stored(app)} ELSE {}
      /\ IngressStep(action, app).dependsOn = {Released(action, app)}
      /\ HealthStep(action, app).dependsOn = {Released(action, app)}
    OBVIOUS
<1>3. /\ Stage(NamespaceStep.type) = 0
      /\ Stage(ValidateStep(app).type) = 1
      /\ Stage(StorageStep(app).type) = 2
      /\ Stage(ChartStep(action, app).type) = 3
      /\ Stage(IngressStep(action, app).type) = 4
      /\ Stage(HealthStep(action, app).type) = 4
    BY DEF Stage, ChartType
<1> QED
    BY <1>1, <1>2, <1>3

\* The steps of one more application leave the steps connected, since it
\* builds on the namespace and on nothing of another application.
LEMMA ConnectedGrows ==
    ASSUME NEW R, Connected(R), NamespaceStep \in R,
           NEW action, NEW app, app.name # NoApp,
           \A b \in R : b = NamespaceStep \/ b.app \notin {NoApp, app.name}
    PROVE  Connected(R \cup Block(action, app))
<1> DEFINE B == Block(action, app)
           n == NamespaceStep
           v == ValidateStep(app)
           st == StorageStep(app)
           ch == ChartStep(action, app)
           in == IngressStep(action, app)
           h == HealthStep(action, app)
<1>1. \A b \in B : b.app = app.name
    BY BlockOfApp
<1>2. n.app = NoApp
    BY BlockOfApp
<1>3. \A a \in B, b \in R : ~Precedes(a, b)
    BY <1>1, <1>2 DEF Precedes
<1>4. \A a \in R, b \in B : Precedes(a, b) => a = n
    BY <1>1 DEF Precedes
<1>5. /\ v \in B /\ ch \in B /\ h \in B
      /\ \A b \in B : \/ b \in {v, ch, h}
                      \/ b = st /\ app.persistence
                      \/ b = in
      /\ app.persistence => st \in B
    BY Zenon DEF Block
<1>6. /\ Id(n) = Namespace /\ Id(v) = Validated(app) /\ Id(st) = Stored(app)
      /\ Id(ch) = Released(action, app)
      /\ v.dependsOn = {Namespace} /\ st.dependsOn = {Validated(app)}
      /\ ch.dependsOn = {Validated(app)}
                        \cup (IF app.persistence THEN {Stored(app)} ELSE {})
      /\ in.dependsOn = {Released(action, app)}
      /\ h.dependsOn = {Released(action, app)}
    BY BlockSteps
<1>7. /\ Stage(n.type) = 0 /\ Stage(v.type) = 1 /\ Stage(st.type) = 2
      /\ Stage(ch.type) = 3 /\ Stage(in.type) = 4 /\ Stage(h.type) = 4
    BY BlockSteps
<1> HIDE DEF B, n, v, st, ch, in, h
<1>8. n \in R
    BY DEF n
<1>9. ASSUME NEW b \in R \cup B, NEW d \in b.dependsOn
      PROVE  \E a \in R \cup B : Id(a) = d /\ Precedes(a, b)
    <2>1. CASE b \in R
        BY <2>1, <1>9 DEF Connected
    <2>2. CASE b = v
        <3>1. Id(n) = d /\ Precedes(n, b)
            BY <1>2, <1>6, <1>7, <1>9, <2>2 DEF Precedes
        <3> QED
            BY <1>8, <3>1
    <2>3. CASE b = st
        <3>1. Id(v) = d /\ Precedes(v, b)
            <4>1. st.app = app.name /\ v.app = app.name
                BY DEF st, v, StorageStep, ValidateStep, NewStep
            <4> QED
                BY <1>6, <1>7, <1>9, <2>3, <4>1 DEF Precedes
        <3> QED
            BY <1>5, <3>1
    <2>4. CASE b = ch
        <3>1. CASE d = Validated(app)
            <4>1. Id(v) = d /\ Precedes(v, b)
                BY <1>1, <1>5, <1>6, <1>7, <2>4, <3>1 DEF Precedes
            <4> QED
                BY <1>5, <4>1
        <3>2. CASE d = Stored(app) /\ app.persistence
            <4>1. Id(st) = d /\ Precedes(st, b)
                BY <1>1, <1>5, <1>6, <1>7, <2>4, <3>2 DEF Precedes
            <4> QED
                BY <1>5, <3>2, <4>1
        <3> QED
            BY <1>6, <1>9, <2>4, <3>1, <3>2
    <2>5. CASE b \in B /\ b \in {in, h}
        <3>1. Id(ch) = d /\ Precedes(ch, b)
            BY <1>1, <1>5, <1>6, <1>7, <1>9, <2>5 DEF Precedes
        <3> QED
            BY <1>5, <3>1
    <2> QED
        BY <1>5, <1>9, <2>1, <2>2, <2>3, <2>4, <2>5
<1>10. ASSUME NEW a \in R \cup B, NEW b \in R \cup B, Precedes(a, b)
       PROVE  \E c \in R \cup B : /\ Id(c) \in b.dependsOn
                                  /\ c = a \/ Precedes(a, c)
    <2>1. CASE b \in R
        <3>1. a \in R
            BY <1>3, <1>10, <2>1
        <3> QED
            BY <1>10, <2>1, <3>1 DEF Connected
    <2>2. CASE b \in B
        <3>1. a \in {n} \cup B
            BY <1>4, <1>10, <2>2
        <3>2. a.app \in {NoApp, app.name} /\ Stage(a.type) < Stage(b.type)
            BY <1>1, <1>10, <2>2 DEF Precedes
        <3>3. CASE b = v
            <4>1. a = n
                BY <1>5, <1>7, <3>1, <3>2, <3>3
            <4> QED
                BY <1>6, <1>8, <3>3, <4>1
        <3>4. CASE b = st
            <4>1. a \in {n, v}
                BY <1>5, <1>7, <3>1, <3>2, <3>4
            <4>2. v = a \/ Precedes(a, v)
                BY <1>1, <1>5, <1>2, <1>7, <4>1 DEF Precedes
            <4> QED
                BY <1>5, <1>6, <3>4, <4>2
        <3>5. CASE b = ch
            <4>1. CASE a = st /\ app.persistence
                BY <1>5, <1>6, <3>5, <4>1
            <4>2. CASE a \in {n, v}
                <5>1. v = a \/ Precedes(a, v)
                    BY <1>1, <1>5, <1>2, <1>7, <4>2 DEF Precedes
                <5> QED
                    BY <1>5, <1>6, <3>5, <5>1
            <4> QED
                BY <1>5, <1>7, <3>1, <3>2, <3>5, <4>1, <4>2
        <3>6. CASE b \in {in, h}
            <4>1. a \in {n, v, ch} \/ (a = st /\ a \in B)
                BY <1>5, <1>7, <3>1, <3>2, <3>6
            <4>2. ch = a \/ Precedes(a, ch)
                BY <1>1, <1>5, <1>2, <1>7, <4>1 DEF Precedes
            <4> QED
                BY <1>5, <1>6, <3>6, <4>2
        <3> QED
            BY <1>5, <2>2, <3>3, <3>4, <3>5, <3>6
    <2> QED
        BY <1>10, <2>1, <2>2
<1> QED
    BY <1>9, <1>10 DEF Connected, B

-----------------------------------------------------------------------------
(* The plan that is built                                                  *)

\* Applications of the catalogue, each once.
Detected(apps) ==
    /\ Len(apps) \in Nat /\ DOMAIN apps = 1 .. Len(apps)
    /\ \A i \in 1 .. Len(apps) : apps[i].name \in AppNames \ {NoApp}
    /\ \A i, j \in 1 .. Len(apps) : apps[i].name = apps[j].name => i = j

\* The planner detects such applications (planner, detectApps).
LEMMA DetectedApps ==
    ASSUME NEW text
    PROVE  Detected(DetectApps(text))
<1> DEFINE apps == DetectApps(text)
<1>1. FoundAmong(9, apps)
    BY AppsFound
<1> HIDE DEF apps
<1>2. /\ Len(apps) \in Nat /\ DOMAIN apps = 1 .. Len(apps)
      /\ \A i \in 1 .. Len(apps) : \E m \in 1 .. 9 : apps[i] = Catalogue[m]
    BY <1>1 DEF FoundAmong
<1>3. \A m \in 1 .. 9 : Catalogue[m].name \in AppNames \ {NoApp}
    BY CatalogueNames DEF AppNames
<1> QED
    BY <1>1, <1>2, <1>3 DEF Detected, FoundAmong, apps

\* Built is the loop over the applications (planner, buildSteps).
LEMMA BuiltLoop ==
    ASSUME NEW action, NEW apps, Detected(apps)
    PROVE  Built(action, apps) =
               [n \in 0 .. Len(apps) |->
                   IF n = 0 THEN <<NamespaceStep>>
                   ELSE Built(action, apps)[n-1] \o AppSteps(action, apps[n])]
<1> DEFINE T == Seq(PlanStep)
           top == Len(apps)
           Step(n, s) == s \o AppSteps(action, apps[n])
           step == [n \in 1 .. top |-> [s \in T |-> Step(n, s)]]
           start == <<NamespaceStep>>
           Body(f) == [n \in 0 .. top |->
                          IF n = 0 THEN start ELSE Step(n, f[n-1])]
<1>1. start \in T
    <2>1. NamespaceStep \in PlanStep
        BY DEF NamespaceStep, NewStep, PlanStep, StepType, StepStatus, AppNames
    <2> QED
        BY <2>1
<1>2. step \in [1 .. top -> [T -> T]]
    <2>1. ASSUME NEW n \in 1 .. top, NEW s \in T PROVE Step(n, s) \in T
        <3>1. AppSteps(action, apps[n]) \in T
            BY AppBlock DEF Detected
        <3> QED
            BY <3>1
    <2> HIDE DEF Step, T, top
    <2> QED
        BY <2>1
<1>3. PICK f \in [0 .. top -> T] : Loop(f, top, start, step)
    <2>1. top \in Nat
        BY DEF Detected
    <2> HIDE DEF step, T, top, start
    <2> QED
        BY <1>1, <1>2, <2>1, LoopEnds
<1>4. f = Body(f)
    <2>1. ASSUME NEW n \in 0 .. top, n # 0
          PROVE  step[n][f[n-1]] = Step(n, f[n-1])
        <3>1. n \in 1 .. top /\ f[n-1] \in T
            <4>1. top \in Nat
                BY DEF Detected
            <4> HIDE DEF T, top
            <4> QED
                BY <2>1, <4>1
        <3> HIDE DEF T, Step, top
        <3> QED
            BY <3>1
    <2>2. \A n \in 0 .. top : n # 0 => n \in 1 .. top
        BY DEF Detected
    <2> HIDE DEF step, Step, T, top, start
    <2> QED
        BY <1>3, <2>1, <2>2 DEF Loop
<1>5. Built(action, apps) = CHOOSE g : g = Body(g)
    BY Zenon DEF Built, NamespaceStep
<1> HIDE DEF Body
<1>6. Built(action, apps) = Body(Built(action, apps))
    BY <1>4, <1>5
<1> QED
    BY <1>6 DEF Body

\* What is built of the first n applications.
WellBuilt(s, apps, n) ==
    /\ s \in Seq(PlanStep) /\ OwnIds(s)
    /\ NamespaceStep \in Members(s) /\ Connected(Members(s))
    /\ \A b \in Members(s) :
           /\ b.status = "PENDING"
           /\ b = NamespaceStep \/ \E i \in 1 .. n : b.app = apps[i].name

\* The steps of one more application are built onto those there are.
LEMMA BuiltFurther ==
    ASSUME NEW action, NEW apps, Detected(apps),
           NEW n \in Nat, n + 1 <= Len(apps), NEW s, WellBuilt(s, apps, n)
    PROVE  WellBuilt(s \o AppSteps(action, apps[n+1]), apps, n + 1)
<1> DEFINE app == apps[n+1]
           t == AppSteps(action, app)
<1>1. n + 1 \in 1 .. Len(apps) /\ app.name \in AppNames \ {NoApp}
    BY DEF Detected
<1>2. \A i \in 1 .. n : /\ i \in 1 .. n + 1
                        /\ apps[i].name # app.name /\ apps[i].name # NoApp
    BY <1>1 DEF Detected
<1> HIDE DEF app, t
<1>3. t \in Seq(PlanStep) /\ OwnIds(t) /\ Members(t) = Block(action, app)
    BY <1>1, AppBlock DEF t
<1>4. /\ \A b \in Block(action, app) : b.status = "PENDING" /\ b.app = app.name
      /\ NamespaceStep.app = NoApp
    BY BlockOfApp, Zenon
<1>5. \A b \in Members(s) : b = NamespaceStep
                             \/ b.app \notin {NoApp, app.name}
    BY <1>2 DEF WellBuilt
<1>6. \A a \in Members(s), b \in Members(t) : Id(a) # Id(b)
    BY <1>1, <1>3, <1>4, <1>5 DEF Id
<1>7. /\ s \o t \in Seq(PlanStep) /\ OwnIds(s \o t)
      /\ Members(s \o t) = Members(s) \cup Block(action, app)
    BY <1>3, <1>6, Joined DEF WellBuilt
<1>8. Connected(Members(s) \cup Block(action, app))
    BY <1>1, <1>5, ConnectedGrows DEF WellBuilt
<1>9. ASSUME NEW b \in Members(s) \cup Block(action, app)
      PROVE  /\ b.status = "PENDING"
             /\ \/ b = NamespaceStep
                \/ \E i \in 1 .. n + 1 : b.app = apps[i].name
    <2>1. CASE b \in Members(s)
        BY <1>2, <2>1 DEF WellBuilt
    <2>2. CASE b \in Block(action, app)
        <3>1. n + 1 \in 1 .. n + 1 /\ b.app = apps[n+1].name
            BY <1>4, <2>2 DEF app
        <3> QED
            BY <1>4, <2>2, <3>1
    <2> QED
        BY <1>9, <2>1, <2>2
<1>10. NamespaceStep \in Members(s \o t)
    BY <1>7 DEF WellBuilt
<1> QED
    BY <1>7, <1>8, <1>9, <1>10 DEF WellBuilt, t, app

\* The plan of any intent is well built (planner, Plan).
LEMMA PlanWellBuilt ==
    ASSUME NEW text
    PROVE  \E apps : WellBuilt(BuildSteps(text), apps, Len(apps))
<1> DEFINE apps == DetectApps(text)
           action == ActionOf(text)
           top == Len(apps)
           built == Built(action, apps)
           S == {n \in Nat : n <= top => WellBuilt(built[n], apps, n)}
<1>1. Detected(apps)
    BY DetectedApps
<1> HIDE DEF apps, action
<1>2. top \in Nat
    BY <1>1 DEF Detected
<1>3. built = [n \in 0 .. top |->
                  IF n = 0 THEN <<NamespaceStep>>
                  ELSE built[n-1] \o AppSteps(action, apps[n])]
    BY <1>1, BuiltLoop
<1> HIDE DEF built, top
<1>4. 0 \in S
    <2>1. built[0] = <<NamespaceStep>>
        BY <1>2, <1>3
    <2>2. NamespaceStep \in PlanStep
        BY DEF NamespaceStep, NewStep, PlanStep, StepType, StepStatus, AppNames
    <2> DEFINE s == <<NamespaceStep>>
    <2>3. s \in Seq(PlanStep) /\ OwnIds(s) /\ Members(s) = {NamespaceStep}
        BY <2>2, Single, Zenon
    <2> HIDE DEF s
    <2>4. NamespaceStep.status = "PENDING" /\ NamespaceStep.dependsOn = {}
        BY DEF NamespaceStep, NewStep
    <2>5. ~Precedes(NamespaceStep, NamespaceStep)
        BY DEF Precedes, Stage, NamespaceStep, NewStep
    <2>6. Connected(Members(s))
        BY <2>3, <2>4, <2>5 DEF Connected
    <2>7. WellBuilt(s, apps, 0)
        BY <2>3, <2>4, <2>6 DEF WellBuilt
    <2> QED
        BY <2>1, <2>7 DEF s
<1>5. ASSUME NEW n \in Nat, n \in S PROVE n + 1 \in S
    <2> SUFFICES ASSUME n + 1 <= top PROVE WellBuilt(built[n+1], apps, n + 1)
        OBVIOUS
    <2>1. built[n+1] = built[n] \o AppSteps(action, apps[n+1])
        <3>1. n + 1 \in 0 .. top /\ n + 1 # 0 /\ (n + 1) - 1 = n
            BY <1>2
        <3> QED
            BY <1>3, <3>1, Zenon
    <2>2. WellBuilt(built[n], apps, n)
        BY <1>2, <1>5
    <2>3. WellBuilt(built[n] \o AppSteps(action, apps[n+1]), apps, n + 1)
        BY <1>1, <2>2, BuiltFurther DEF top
    <2> QED
        BY <2>1, <2>3
<1> HIDE DEF S
<1>6. Nat \subseteq S
    BY <1>4, <1>5, CountingUp
<1>7. WellBuilt(built[top], apps, top)
    BY <1>2, <1>6 DEF S
<1>8. BuildSteps(text) = built[top]
    BY DEF BuildSteps, built, apps, action, top
<1> QED
    BY <1>7, <1>8 DEF top

-----------------------------------------------------------------------------
(* Plans                                                                   *)

\* The steps of a plan, whatever has become of them, are connected.
ShapeInv ==
    /\ OwnIds(steps)
    /\ \A j \in DOMAIN steps : \A d \in steps[j].dependsOn :
           \E i \in DOMAIN steps : Id(steps[i]) = d /\ Before(i, j)
    /\ \A i, j \in DOMAIN steps :
           Before(i, j) =>
               \E k \in DOMAIN steps : /\ Id(steps[k]) \in steps[j].dependsOn
                                       /\ k = i \/ Before(i, k)

\* Whatever has been taken up, or skipped, finds in place what it builds on.
BegunInv ==
    \A j \in DOMAIN steps :
        steps[j].status # "PENDING" =>
            \A i \in DOMAIN steps : Before(i, j) => steps[i].status \in Settled

\* A new plan is connected, and nothing of it has begun.
LEMMA NewPlan ==
    ASSUME NEW text, steps' = BuildSteps(text)
    PROVE  steps' \in Seq(PlanStep) /\ ShapeInv' /\ BegunInv'
<1> DEFINE s == BuildSteps(text)
<1>1. PICK apps : WellBuilt(s, apps, Len(apps))
    BY PlanWellBuilt
<1> HIDE DEF s
<1>2. \A i \in DOMAIN s : s[i] \in Members(s)
    BY DEF Members
<1>3. \A a \in Members(s) : \E i \in DOMAIN s : a = s[i]
    BY DEF Members
<1>4. \A i \in DOMAIN s : s[i].status = "PENDING"
    BY <1>1, <1>2 DEF WellBuilt
<1>5. \A j \in DOMAIN s : \A d \in s[j].dependsOn :
          \E i \in DOMAIN s : Id(s[i]) = d /\ Precedes(s[i], s[j])
    <2> SUFFICES ASSUME NEW j \in DOMAIN s, NEW d \in s[j].dependsOn
                 PROVE  \E i \in DOMAIN s : Id(s[i]) = d /\ Precedes(s[i], s[j])
        OBVIOUS
    <2>1. PICK a \in Members(s) : Id(a) = d /\ Precedes(a, s[j])
        BY <1>1, <1>2 DEF WellBuilt, Connected
    <2> QED
        BY <1>3, <2>1
<1>6. ASSUME NEW i \in DOMAIN s, NEW j \in DOMAIN s, Precedes(s[i], s[j])
      PROVE  \E k \in DOMAIN s : /\ Id(s[k]) \in s[j].dependsOn
                                 /\ k = i \/ Precedes(s[i], s[k])
    <2>1. PICK c \in Members(s) : /\ Id(c) \in s[j].dependsOn
                                  /\ c = s[i] \/ Precedes(s[i], c)
        BY <1>1, <1>2, <1>6 DEF WellBuilt, Connected
    <2>2. PICK k \in DOMAIN s : c = s[k]
        BY <1>3, <2>1
    <2>3. c = s[i] => k = i
        BY <1>1, <2>2 DEF WellBuilt, OwnIds
    <2> QED
        BY <2>1, <2>2, <2>3
<1>7. steps' = s
    BY DEF s
<1>8. ShapeInv'
    BY <1>1, <1>5, <1>6, <1>7
    DEF ShapeInv, WellBuilt, OwnIds, Before, Precedes
<1>9. BegunInv'
    BY <1>4, <1>7 DEF BegunInv
<1> QED
    BY <1>1, <1>7, <1>8, <1>9 DEF WellBuilt

\* The companion plan has its types.
LEMMA RollbackSteps ==
    ASSUME NEW text
    PROVE  BuildRollbackPlan(text) \in Seq(PlanStep)
<1> DEFINE apps == DetectApps(text)
<1>1. Detected(apps)
    BY DetectedApps
<1>2. BuildRollbackPlan(text) =
          [i \in DOMAIN apps |-> NewStep("ROLLBACK_CHART", apps[i].name, {})]
    BY DEF BuildRollbackPlan
<1> HIDE DEF apps
<1>3. \A i \in 1 .. Len(apps) :
          NewStep("ROLLBACK_CHART", apps[i].name, {}) \in PlanStep
    BY <1>1 DEF Detected, NewStep, PlanStep, StepType, StepStatus
<1> QED
    BY <1>1, <1>2, <1>3 DEF Detected

\* A change of one step's status leaves what the steps are.
LEMMA StatusChanges ==
    ASSUME steps \in Seq(PlanStep), NEW i \in DOMAIN steps,
           NEW st \in StepStatus, UpdateStepStatus(i, st)
    PROVE  /\ steps' \in Seq(PlanStep) /\ DOMAIN steps' = DOMAIN steps
           /\ \A j \in DOMAIN steps :
                  /\ steps'[j].type = steps[j].type
                  /\ steps'[j].app = steps[j].app
                  /\ steps'[j].dependsOn = steps[j].dependsOn
                  /\ steps'[j].status = IF j = i THEN st ELSE steps[j].status
<1>1. \A j \in DOMAIN steps : steps[j] \in PlanStep
    OBVIOUS
<1>2. steps' = [steps EXCEPT ![i] = [steps[i] EXCEPT !.status = st]]
    BY DEF UpdateStepStatus
<1>3. [steps[i] EXCEPT !.status = st] \in PlanStep
    BY <1>1 DEF PlanStep
<1>4. steps' \in Seq(PlanStep) /\ DOMAIN steps' = DOMAIN steps
    BY <1>2, <1>3
<1>5. \A j \in DOMAIN steps :
          steps'[j] = IF j = i THEN [steps[i] EXCEPT !.status = st] ELSE steps[j]
    BY <1>2
<1> QED
    BY <1>1, <1>4, <1>5 DEF PlanStep

\* What each step of the model may do to the steps of a plan.
LEMMA StepsOfPlans ==
    ASSUME [Next]_vars
    PROVE  \/ UNCHANGED steps
           \/ steps' = BuildSteps(intent)
           \/ \E i \in ReadySteps : \E st \in {"RUNNING", "SKIPPED"} :
                  UpdateStepStatus(i, st)
           \/ \E i \in Running : \E st \in {"SUCCEEDED", "FAILED"} :
                  UpdateStepStatus(i, st)
BY DEF Next, MakePlan, Approve, Start, Complete, Fail, Abort, BeginStep,
       SkipStep, EndStep, Refused, vars

\* For every intent and any number of steps worked on at once, the plan and
\* its companion stay well typed: the dependencies of a step are steps of
\* the catalogue's applications (planner, buildSteps; plan, NewStep).
THEOREM TypeCorrect == Spec => []TypeOK
<1> DEFINE Typed == /\ intent \in Intents
                    /\ status \in PlanStatus \cup {"NONE", "REFUSED"}
                    /\ steps \in Seq(PlanStep) /\ rollback \in Seq(PlanStep)
                    /\ deployed \in BOOLEAN
<1>1. TypeOK <=> Typed
    BY DEF TypeOK, PlanStep, AppNames
<1>2. Init => Typed
    <2>1. <<>> \in Seq(PlanStep)
        OBVIOUS
    <2> QED
        BY <2>1, Zenon DEF Init
<1>3. Typed /\ [Next]_vars => Typed'
    <2> SUFFICES ASSUME Typed, [Next]_vars PROVE Typed'
        OBVIOUS
    <2>1. intent' = intent /\ deployed' \in BOOLEAN
          /\ status' \in PlanStatus \cup {"NONE", "REFUSED"}
        BY DEF Next, MakePlan, Approve, Start, Complete, Fail, Abort,
               BeginStep, SkipStep, EndStep, Refused, UpdateStepStatus, vars,
               PlanStatus
    <2>2. rollback' = rollback \/ rollback' = BuildRollbackPlan(intent)
        BY DEF Next, MakePlan, Approve, Start, Complete, Fail, Abort,
               BeginStep, SkipStep, EndStep, Refused, UpdateStepStatus, vars
    <2>3. steps' \in Seq(PlanStep)
        <3>1. CASE steps' = BuildSteps(intent)
            BY <3>1, NewPlan
        <3>2. CASE \E i \in ReadySteps \cup Running : \E st \in StepStatus :
                       UpdateStepStatus(i, st)
            BY <3>2, StatusChanges DEF ReadySteps, Running
        <3> QED
            BY <3>1, <3>2, StepsOfPlans DEF StepStatus
    <2> QED
        BY <2>1, <2>2, <2>3, RollbackSteps
<1> HIDE DEF Typed
<1> QED
    BY <1>1, <1>2, <1>3, PTL DEF Spec

\* A step whose status changes keeps the plan connected.
LEMMA ShapeStays ==
    ASSUME steps \in Seq(PlanStep), ShapeInv, NEW i \in DOMAIN steps,
           NEW st \in StepStatus, UpdateStepStatus(i, st)
    PROVE  /\ ShapeInv'
           /\ \A j, k \in DOMAIN steps : Before(j, k)' <=> Before(j, k)
<1>1. /\ DOMAIN steps' = DOMAIN steps
      /\ \A j \in DOMAIN steps :
             /\ Id(steps'[j]) = Id(steps[j])
             /\ steps'[j].dependsOn = steps[j].dependsOn
    BY StatusChanges DEF Id
<1>2. \A j, k \in DOMAIN steps : Before(j, k)' <=> Before(j, k)
    BY StatusChanges DEF Before
<1> QED
    BY <1>1, <1>2 DEF ShapeInv, OwnIds

\* A step that is ready finds all it builds on settled, not only what it
\* depends on directly.
LEMMA ReadyMeansReady ==
    ASSUME ShapeInv, BegunInv, NEW j \in ReadySteps,
           NEW i \in DOMAIN steps, Before(i, j)
    PROVE  steps[i].status \in Settled
<1>1. j \in DOMAIN steps
    BY DEF ReadySteps
<1>2. PICK k \in DOMAIN steps : /\ Id(steps[k]) \in steps[j].dependsOn
                                /\ k = i \/ Before(i, k)
    BY <1>1 DEF ShapeInv
<1>3. PICK m \in DOMAIN steps : /\ steps[m].status \in Settled
                                /\ Id(steps[m]) = Id(steps[k])
    BY <1>2 DEF ReadySteps
<1>4. k = m
    BY <1>3 DEF ShapeInv, OwnIds
<1> QED
    BY <1>2, <1>3, <1>4 DEF BegunInv, Settled

\* The plan stays connected, and nothing begins before what it builds on.
LEMMA PlanStays ==
    ASSUME TypeOK, ShapeInv, BegunInv, [Next]_vars
    PROVE  ShapeInv' /\ BegunInv'
<1>1. steps \in Seq(PlanStep)
    BY DEF TypeOK, PlanStep, AppNames
<1>2. CASE UNCHANGED steps
    BY <1>2 DEF ShapeInv, BegunInv, OwnIds, Before
<1>3. CASE steps' = BuildSteps(intent)
    BY <1>3, NewPlan
<1>4. ASSUME NEW i \in ReadySteps, NEW st \in {"RUNNING", "SKIPPED"},
             UpdateStepStatus(i, st)
      PROVE  ShapeInv' /\ BegunInv'
    <2>1. /\ i \in DOMAIN steps /\ steps[i].status = "PENDING"
          /\ st \in StepStatus
        BY DEF ReadySteps, StepStatus
    <2>2. /\ ShapeInv' /\ DOMAIN steps' = DOMAIN steps
          /\ \A j, k \in DOMAIN steps : Before(j, k)' <=> Before(j, k)
          /\ \A j \in DOMAIN steps :
                 steps'[j].status = IF j = i THEN st ELSE steps[j].status
        BY <1>1, <1>4, <2>1, ShapeStays, StatusChanges
    <2>3. ASSUME NEW j \in DOMAIN steps, steps'[j].status # "PENDING",
                 NEW k \in DOMAIN steps, Before(k, j)
          PROVE  steps'[k].status \in Settled
        <3>1. steps[k].status \in Settled
            BY <2>2, <2>3, ReadyMeansReady DEF BegunInv
        <3> QED
            BY <2>1, <2>2, <3>1 DEF Settled
    <2> QED
        BY <2>2, <2>3 DEF BegunInv
<1>5. ASSUME NEW i \in Running, NEW st \in {"SUCCEEDED", "FAILED"},
             UpdateStepStatus(i, st)
      PROVE  ShapeInv' /\ BegunInv'
    <2>1. /\ i \in DOMAIN steps /\ steps[i].status = "RUNNING"
          /\ st \in StepStatus
        BY DEF Running, StepStatus
    <2>2. /\ ShapeInv' /\ DOMAIN steps' = DOMAIN steps
          /\ \A j, k \in DOMAIN steps : Before(j, k)' <=> Before(j, k)
          /\ \A j \in DOMAIN steps :
                 steps'[j].status = IF j = i THEN st ELSE steps[j].status
        BY <1>1, <1>5, <2>1, ShapeStays, StatusChanges
    <2>3. ASSUME NEW j \in DOMAIN steps, steps'[j].status # "PENDING",
                 NEW k \in DOMAIN steps, Before(k, j)
          PROVE  steps'[k].status \in Settled
        <3>1. steps[k].status \in Settled
            BY <2>1, <2>2, <2>3 DEF BegunInv
        <3> QED
            BY <2>1, <2>2, <3>1 DEF Settled
    <2> QED
        BY <2>2, <2>3 DEF BegunInv
<1> QED
    BY <1>2, <1>3, <1>4, <1>5, StepsOfPlans

\* Every plan is connected, and nothing of it has begun too early.
LEMMA PlansConnected == Spec => [](ShapeInv /\ BegunInv)
<1>1. Init => ShapeInv /\ BegunInv
    <2>1. DOMAIN <<>> = {}
        OBVIOUS
    <2> QED
        BY <2>1 DEF Init, ShapeInv, BegunInv, OwnIds
<1>2. TypeOK /\ ShapeInv /\ BegunInv /\ [Next]_vars => ShapeInv' /\ BegunInv'
    BY PlanStays
<1> QED
    BY <1>1, <1>2, TypeCorrect, PTL DEF Spec

\* For every intent, however many steps of a plan are worked on at once and
\* in whatever order they end: a step that has begun finds all it builds on
\* settled, the namespace, the chart, the storage and the release.
THEOREM NothingBeginsEarly == Spec => []NothingTooEarly
<1>1. BegunInv => NothingTooEarly
    BY DEF BegunInv, NothingTooEarly
<1> QED
    BY <1>1, PlansConnected, PTL

\* For every intent, a step that waits waits for a step of its own
\* application, or for the namespace: an application that fails holds up no
\* other.
THEOREM NothingWaitsLong == Spec => []NothingTooLate
<1>1. ShapeInv => NothingTooLate
    <2> SUFFICES ASSUME ShapeInv, NEW j \in DOMAIN steps,
                        steps[j].status = "PENDING", j \notin ReadySteps
                 PROVE  \E i \in DOMAIN steps :
                            Before(i, j) /\ steps[i].status \notin Settled
        BY DEF NothingTooLate
    <2>1. PICK d \in steps[j].dependsOn :
              \A i \in DOMAIN steps :
                  steps[i].status \in Settled => Id(steps[i]) # d
        BY DEF ReadySteps
    <2>2. PICK i \in DOMAIN steps : Id(steps[i]) = d /\ Before(i, j)
        BY <2>1 DEF ShapeInv
    <2> QED
        BY <2>1, <2>2
<1> QED
    BY <1>1, PlansConnected, PTL
=============================================================================
