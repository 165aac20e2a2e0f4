---------------------------- MODULE PlanLifeProofs ----------------------------
(***************************************************************************)
(* What TLAPS proves of PlanLife, for every set of handles and every       *)
(* combination of kinds and of failures, whether the code tests for them   *)
(* or not.                                                                 *)
(***************************************************************************)
EXTENDS PlanLife, TLAPS

\* Blocks that an init has stored before step i.
Before(k, i) ==
    {b \in Blocks : \E j \in 1..Len(InitSteps[k]) : j < i /\ InitSteps[k][j] = b}

\* Blocks that a destroy function has yet to come to at step i.
Remaining(k, i) ==
    {b \in Blocks : \E j \in 1..Len(DestroySteps[k]) : j >= i /\ DestroySteps[k][j] = b}

Nesting == {"chirp_z", "real"}

\* The state of the code pages at step i of an init.
CodeAt(k, i) ==
    IF k # "dynamic" \/ i <= 7 THEN "none"
    ELSE IF i <= 9 THEN "writable"
    ELSE IF i = 10 THEN "executable" ELSE "flushed"

\* Plans that an init or a destroy function is working on, or was when it crashed.
Busy == Active \cup {"crashed"}

\* What an init at step i may lack of the blocks before: the one whose allocation
\* it does not test, and no longer than until the next step, which needs it.
Lacking(k, i) ==
    {b \in Blocks : /\ <<k, b>> \in MayFail \cap Unchecked
                    /\ (k = "chirp_z" /\ i = 6) \/ (k = "dynamic" /\ i = 8)}

\* Blocks that an init has filled before step i, and those that an untested
\* failure may leave as they were allocated.
FilledBefore(k, i) ==
    {b \in Blocks : \E j \in 1..Len(InitSteps[k]) : j < i /\ b \in FilledBy(InitSteps[k][j])}

Unfilled(k) == {b \in {"A", "B"} : <<k, "chirp">> \in MayFail \cap Unchecked}

AbsentOK(h) == phase[h] = "absent" =>
    /\ ptr[h] = {} /\ mem[h] = {} /\ at[h] = 1
    /\ sub[h] = NoPlan /\ boss[h] = NoPlan /\ code[h] = "none"

InitOK(h) == phase[h] = "init" =>
    /\ at[h] <= Len(InitSteps[kind[h]]) + 1
    /\ mem[h] \subseteq Before(kind[h], at[h])
    /\ Before(kind[h], at[h]) \ mem[h] \subseteq Lacking(kind[h], at[h])
    /\ FilledBefore(kind[h], at[h]) \subseteq full[h] \cup Unfilled(kind[h])
    /\ ptr[h] = mem[h]
    /\ code[h] = IF "transform_base" \in Before(kind[h], at[h]) \ mem[h]
                 THEN "failed" ELSE CodeAt(kind[h], at[h])
    /\ sub[h] # NoPlan <=> kind[h] \in Nesting /\ at[h] > 2

HeldOK(h) == phase[h] = "held" =>
    /\ at[h] = 1
    /\ mem[h] = Before(kind[h], Len(InitSteps[kind[h]]) + 1)
    /\ FilledBefore(kind[h], Len(InitSteps[kind[h]]) + 1) \subseteq full[h] \cup Unfilled(kind[h])
    /\ ptr[h] = mem[h]
    /\ code[h] = IF kind[h] = "dynamic" THEN "flushed" ELSE "none"
    /\ sub[h] # NoPlan <=> kind[h] \in Nesting

DestroyOK(h) == phase[h] \in {"cleanup", "free"} =>
    /\ at[h] <= Len(DestroySteps[kind[h]])
    /\ mem[h] = ptr[h] \cap Remaining(kind[h], at[h])
    /\ "self" \in ptr[h]
    /\ ptr[h] \subseteq Remaining(kind[h], 1)
    /\ code[h] # "none" => kind[h] = "dynamic" /\ at[h] = 1
    /\ sub[h] # NoPlan => kind[h] \in Nesting /\ at[h] <= 4

\* A plan and the nested plan it points to.
SubOK(h) == sub[h] # NoPlan =>
    /\ phase[sub[h]] = "held"
    /\ boss[sub[h]] = h

\* A plan and the caller it was made for.
BossOK(g) == boss[g] # NoPlan =>
    /\ phase[g] = "held" => sub[boss[g]] = g
    /\ phase[g] \in {"init", "cleanup", "crashed"} =>
           /\ phase[boss[g]] = "init"
           /\ kind[boss[g]] \in Nesting
           /\ at[boss[g]] = 2
    /\ phase[g] = "free" => phase[boss[g]] \in {"cleanup", "free"}

\* A thread is inside one call at a time, and stays in one that crashed.
OneCall ==
    \A g1, g2 \in Handles :
        /\ boss[g1] # NoPlan /\ boss[g1] = boss[g2]
        /\ phase[g1] \in Busy /\ phase[g2] \in Busy
        => g1 = g2

IInv ==
    /\ TypeOK
    /\ OnlyUntestedCrash
    /\ \A h \in Handles : AbsentOK(h) /\ InitOK(h) /\ HeldOK(h) /\ DestroyOK(h)
    /\ \A h \in Handles : SubOK(h) /\ BossOK(h)
    /\ OneCall

-----------------------------------------------------------------------------
(* The tables of steps.                                                    *)

LEMMA InitTable ==
    ASSUME NEW k \in AllKinds
    PROVE  /\ Len(InitSteps[k]) \in Nat
           /\ Len(InitSteps[k]) >= 1
           /\ Len(InitSteps[k]) <= 10
           /\ \A i \in 1..Len(InitSteps[k]) :
                  /\ InitSteps[k][i] \in Steps
                  /\ InitSteps[k][i] = "self" <=> i = 1
                  /\ InitSteps[k][i] = "plan0" <=> i = 2 /\ k \in Nesting
                  /\ InitSteps[k][i] = "transform_base" <=> i = 7 /\ k = "dynamic"
                  /\ InitSteps[k][i] = "codegen" <=> i = 8 /\ k = "dynamic"
                  /\ InitSteps[k][i] = "allow_execute" <=> i = 9 /\ k = "dynamic"
                  /\ InitSteps[k][i] = "flush" <=> i = 10 /\ k = "dynamic"
                  /\ InitSteps[k][i] = "chirp" <=> i = 6 /\ k = "chirp_z"
                  /\ k = "chirp_z" => (InitSteps[k][i] = "buf" <=> i = 5)
                  /\ \A j \in 1..Len(InitSteps[k]) :
                         InitSteps[k][i] = InitSteps[k][j] => i = j
           /\ k = "dynamic" => Len(InitSteps[k]) >= 10
           /\ k \in Nesting => Len(InitSteps[k]) >= 6
<1>1. CASE k = "small"
  BY <1>1 DEF InitSteps, Steps, Blocks, Calls, Nesting
<1>2. CASE k = "static"
  BY <1>2 DEF InitSteps, Steps, Blocks, Calls, Nesting
<1>3. CASE k = "dynamic"
  BY <1>3 DEF InitSteps, Steps, Blocks, Calls, Nesting
<1>4. CASE k = "chirp_z"
  BY <1>4 DEF InitSteps, Steps, Blocks, Calls, Nesting
<1>5. CASE k = "real"
  BY <1>5 DEF InitSteps, Steps, Blocks, Calls, Nesting
<1>. QED BY <1>1, <1>2, <1>3, <1>4, <1>5 DEF AllKinds

LEMMA DestroyTable ==
    ASSUME NEW k \in AllKinds
    PROVE  /\ Len(DestroySteps[k]) \in Nat
           /\ Len(DestroySteps[k]) >= 1
           /\ \A i \in 1..Len(DestroySteps[k]) :
                  /\ DestroySteps[k][i] \in Steps
                  /\ DestroySteps[k][i] = "self" <=> i = Len(DestroySteps[k])
                  /\ DestroySteps[k][i] = "plan0" <=> i = 4 /\ k \in Nesting
                  /\ DestroySteps[k][i] = "transform_base" <=> i = 1 /\ k \notin Nesting
                  /\ \A j \in 1..Len(DestroySteps[k]) :
                         DestroySteps[k][i] = DestroySteps[k][j] => i = j
           /\ k \in Nesting => Len(DestroySteps[k]) = 5
<1>1. CASE k = "small"
  BY <1>1 DEF DestroySteps, Steps, Blocks, Calls, Nesting
<1>2. CASE k = "static"
  BY <1>2 DEF DestroySteps, Steps, Blocks, Calls, Nesting
<1>3. CASE k = "dynamic"
  BY <1>3 DEF DestroySteps, Steps, Blocks, Calls, Nesting
<1>4. CASE k = "chirp_z"
  BY <1>4 DEF DestroySteps, Steps, Blocks, Calls, Nesting
<1>5. CASE k = "real"
  BY <1>5 DEF DestroySteps, Steps, Blocks, Calls, Nesting
<1>. QED BY <1>1, <1>2, <1>3, <1>4, <1>5 DEF AllKinds

\* Every destroy function has a step, and those with a nested plan have five.
LEMMA DestroyLength ==
    ASSUME NEW k \in AllKinds
    PROVE  /\ 1 <= Len(DestroySteps[k])
           /\ k \in Nesting => Len(DestroySteps[k]) = 5 /\ 4 <= Len(DestroySteps[k])
<1>1. Len(DestroySteps[k]) \in Nat /\ Len(DestroySteps[k]) >= 1
  BY DestroyTable
<1>2. k \in Nesting => Len(DestroySteps[k]) = 5
  BY DestroyTable
<1>. QED BY <1>1, <1>2

\* What a call needs has been stored before it.
LEMMA UsesBefore ==
    ASSUME NEW k \in AllKinds, NEW i \in 1..Len(InitSteps[k]),
           InitSteps[k][i] \in Calls
    PROVE  Uses[InitSteps[k][i]] \subseteq Before(k, i)
<1>1. CASE k = "small"
  BY <1>1 DEF InitSteps, Calls
<1>2. CASE k = "static"
  <2>1. i = 4 BY <1>2 DEF InitSteps, Calls
  <2>. QED BY <1>2, <2>1 DEF InitSteps, Uses, Before, Blocks
<1>3. CASE k = "dynamic"
  <2>1. i \in {4, 8, 9, 10} BY <1>3 DEF InitSteps, Calls
  <2>2. Uses[InitSteps[k][i]] \subseteq {"ws", "ws_is", "transform_base"} BY <1>3, <2>1 DEF InitSteps, Uses
  <2>. QED BY <1>3, <2>1 DEF InitSteps, Uses, Before, Blocks
<1>4. CASE k = "chirp_z"
  <2>1. i = 6 BY <1>4 DEF InitSteps, Calls
  <2>. QED BY <1>4, <2>1 DEF InitSteps, Uses, Before, Blocks
<1>5. CASE k = "real"
  <2>1. i = 6 BY <1>5 DEF InitSteps, Calls
  <2>. QED BY <1>5, <2>1 DEF InitSteps, Uses, Before, Blocks
<1>. QED BY <1>1, <1>2, <1>3, <1>4, <1>5 DEF AllKinds

\* All that a transform function dereferences is stored by the init.
LEMMA TransformBefore ==
    ASSUME NEW k \in AllKinds
    PROVE  TransformUses[k] \subseteq Before(k, Len(InitSteps[k]) + 1)
<1>1. CASE k = "small"
  BY <1>1 DEF TransformUses
<1>2. CASE k = "static"
  BY <1>2 DEF InitSteps, TransformUses, Before, Blocks
<1>3. CASE k = "dynamic"
  BY <1>3 DEF InitSteps, TransformUses, Before, Blocks
<1>4. CASE k = "chirp_z"
  BY <1>4 DEF InitSteps, TransformUses, Before, Blocks
<1>5. CASE k = "real"
  BY <1>5 DEF InitSteps, TransformUses, Before, Blocks
<1>. QED BY <1>1, <1>2, <1>3, <1>4, <1>5 DEF AllKinds

\* Whatever an init stores, the destroy function releases.
LEMMA StoredIsReleased ==
    ASSUME NEW k \in AllKinds, NEW i \in Nat
    PROVE  Before(k, i) \subseteq Remaining(k, 1)
<1>1. CASE k = "small"
  BY <1>1 DEF InitSteps, DestroySteps, Before, Remaining, Blocks
<1>2. CASE k = "static"
  BY <1>2 DEF InitSteps, DestroySteps, Before, Remaining, Blocks
<1>3. CASE k = "dynamic"
  BY <1>3 DEF InitSteps, DestroySteps, Before, Remaining, Blocks
<1>4. CASE k = "chirp_z"
  BY <1>4 DEF InitSteps, DestroySteps, Before, Remaining, Blocks
<1>5. CASE k = "real"
  BY <1>5 DEF InitSteps, DestroySteps, Before, Remaining, Blocks
<1>. QED BY <1>1, <1>2, <1>3, <1>4, <1>5 DEF AllKinds

\* What an init may lack is what its next step needs.
LEMMA LackingUsed ==
    ASSUME NEW k \in AllKinds, NEW i \in 1..Len(InitSteps[k])
    PROVE  /\ InitSteps[k][i] \in Calls => Lacking(k, i) \subseteq Uses[InitSteps[k][i]]
           /\ InitSteps[k][i] \notin Calls => Lacking(k, i) = {}
<1>1. CASE k = "chirp_z" /\ i = 6
  <2>1. InitSteps[k][i] = "chirp"
    BY <1>1, InitTable
  <2>2. Lacking(k, i) \subseteq {"buf"}
    BY <1>1 DEF Lacking, Unchecked, Blocks
  <2>. QED BY <2>1, <2>2 DEF Calls, Uses
<1>2. CASE k = "dynamic" /\ i = 8
  <2>1. InitSteps[k][i] = "codegen"
    BY <1>2, InitTable
  <2>2. Lacking(k, i) \subseteq {"transform_base"}
    BY <1>2 DEF Lacking, Unchecked, Blocks
  <2>. QED BY <2>1, <2>2 DEF Calls, Uses
<1>3. CASE ~(k = "chirp_z" /\ i = 6) /\ ~(k = "dynamic" /\ i = 8)
  BY <1>3 DEF Lacking
<1>. QED BY <1>1, <1>2, <1>3

\* A finished init lacks nothing.
LEMMA LackingAtEnd ==
    ASSUME NEW k \in AllKinds
    PROVE  Lacking(k, Len(InitSteps[k]) + 1) = {}
<1>. DEFINE n == Len(InitSteps[k])
<1>1. n \in Nat
  BY InitTable
<1>2. (k = "dynamic" => n >= 10) /\ (k = "chirp_z" => n >= 6)
  BY InitTable DEF Nesting
<1>. HIDE DEF n
<1>3. (k = "dynamic" => n + 1 # 8) /\ (k = "chirp_z" => n + 1 # 6)
  BY <1>1, <1>2
<1>. QED BY <1>3 DEF Lacking, n

\* Steps fill blocks.
LEMMA FilledByType ==
    ASSUME NEW x \in Steps
    PROVE  FilledBy(x) \subseteq Blocks
BY DEF FilledBy, Blocks

\* One more step of an init, its blocks filled.
LEMMA FilledNext ==
    ASSUME NEW k \in AllKinds, NEW i \in 1..Len(InitSteps[k])
    PROVE  FilledBefore(k, i + 1) = FilledBefore(k, i) \cup FilledBy(InitSteps[k][i])
<1>1. InitSteps[k][i] \in Steps /\ Len(InitSteps[k]) \in Nat
  BY InitTable
<1>2. FilledBy(InitSteps[k][i]) \subseteq Blocks
  BY <1>1, FilledByType
<1>. QED BY <1>1, <1>2 DEF FilledBefore

\* All that executions read, the scratch buffer aside, is filled by the init.
LEMMA TransformFilled ==
    ASSUME NEW k \in AllKinds
    PROVE  TransformUses[k] \ {"buf"} \subseteq FilledBefore(k, Len(InitSteps[k]) + 1)
<1>1. CASE k = "small"
  BY <1>1 DEF TransformUses
<1>2. CASE k = "static"
  BY <1>2 DEF InitSteps, TransformUses, FilledBefore, FilledBy, Blocks
<1>3. CASE k = "dynamic"
  BY <1>3 DEF InitSteps, TransformUses, FilledBefore, FilledBy, Blocks
<1>4. CASE k = "chirp_z"
  BY <1>4 DEF InitSteps, TransformUses, FilledBefore, FilledBy, Blocks
<1>5. CASE k = "real"
  BY <1>5 DEF InitSteps, TransformUses, FilledBefore, FilledBy, Blocks
<1>. QED BY <1>1, <1>2, <1>3, <1>4, <1>5 DEF AllKinds

-----------------------------------------------------------------------------
(* Each action preserves IInv.                                             *)

\* A plan whose init crashed stays as it is, and so does what it crashed of.
LEMMA CrashedStay ==
    ASSUME OnlyUntestedCrash,
           \A x \in Handles : phase'[x] = "crashed" =>
               /\ phase[x] = "crashed"
               /\ kind'[x] = kind[x] /\ at'[x] = at[x] /\ mem'[x] = mem[x]
    PROVE  OnlyUntestedCrash'
BY DEF OnlyUntestedCrash, InitStep, Untested

LEMMA InitIInv == Init => IInv
BY DEF Init, IInv, TypeOK, OnlyUntestedCrash, AbsentOK, InitOK, HeldOK, DestroyOK,
       SubOK, BossOK, OneCall, Phases, AllKinds, Active, Busy, CodeStates

LEMMA EnterStep ==
    ASSUME IInv, NEW h \in Handles, NEW k \in Kinds, NEW b \in Handles \cup {NoPlan},
           Enter(h, k, b),
           b # NoPlan => /\ phase[b] = "init" /\ kind[b] \in Nesting /\ at[b] = 2
                         /\ ~Blocked(b)
    PROVE  IInv'
<1>. USE DEF IInv, Enter
<1>1. TypeOK'
  BY KindsAssumption DEF TypeOK, Phases
<1>2. OnlyUntestedCrash'
  BY CrashedStay DEF TypeOK
<1>3. ASSUME NEW x \in Handles
      PROVE  (AbsentOK(x) /\ InitOK(x) /\ HeldOK(x) /\ DestroyOK(x))'
  <2>1. Before(k, 1) = {} /\ FilledBefore(k, 1) = {}
    BY DEF Before, FilledBefore
  <2>2. CASE x = h
    <3>1. /\ k \in AllKinds
          /\ phase'[h] = "init" /\ kind'[h] = k /\ at'[h] = 1
          /\ mem'[h] = {} /\ ptr'[h] = {} /\ code'[h] = "none" /\ sub'[h] = NoPlan
      BY KindsAssumption DEF TypeOK, AbsentOK
    <3>2. /\ 1 <= Len(InitSteps[k]) + 1
          /\ CodeAt(k, 1) = "none"
      BY <3>1, InitTable DEF CodeAt
    <3>. QED BY <2>1, <2>2, <3>1, <3>2 DEF AbsentOK, InitOK, HeldOK, DestroyOK
  <2>3. CASE x # h
    BY <2>3 DEF TypeOK, AbsentOK, InitOK, HeldOK, DestroyOK
  <2>. QED BY <2>2, <2>3
<1>4. ASSUME NEW x \in Handles
      PROVE  (SubOK(x) /\ BossOK(x))'
  BY NoPlanAssumption DEF TypeOK, SubOK, BossOK, AbsentOK
<1>5. OneCall'
  BY DEF TypeOK, OneCall, Blocked, Busy
<1>. QED BY <1>1, <1>2, <1>3, <1>4, <1>5

\* One more step of an init, one more block stored.
LEMMA BeforeNext ==
    ASSUME NEW k \in AllKinds, NEW i \in 1..Len(InitSteps[k])
    PROVE  Before(k, i + 1) = Before(k, i) \cup ({InitSteps[k][i]} \cap Blocks)
<1>1. /\ Len(InitSteps[k]) \in Nat
      /\ \A j \in 1..Len(InitSteps[k]), m \in 1..Len(InitSteps[k]) :
             InitSteps[k][j] = InitSteps[k][m] => j = m
  BY InitTable
<1>. QED BY <1>1 DEF Before

\* One more step of a destroy function, one block less to come.
LEMMA RemainingNext ==
    ASSUME NEW k \in AllKinds, NEW i \in 1..Len(DestroySteps[k])
    PROVE  Remaining(k, i + 1) = Remaining(k, i) \ {DestroySteps[k][i]}
BY DestroyTable DEF Remaining

\* What TypeOK says of the handle an init works on.
LEMMA AtInitType ==
    ASSUME IInv, NEW h \in Handles, AtInit(h)
    PROVE  /\ kind[h] \in AllKinds
           /\ at[h] \in 1..Len(InitSteps[kind[h]])
           /\ InitStep(h) \in Steps
           /\ Len(InitSteps[kind[h]]) \in Nat
BY InitTable DEF IInv, TypeOK, AtInit, InitStep

LEMMA AllocateStep ==
    ASSUME IInv, NEW h \in Handles, Allocate(h)
    PROVE  IInv'
<1>. USE DEF IInv, Allocate
<1>. DEFINE k == kind[h]
            i == at[h]
<1>0. /\ k \in AllKinds
      /\ i \in 1..Len(InitSteps[k])
      /\ Len(InitSteps[k]) \in Nat
      /\ InitStep(h) = InitSteps[k][i]
      /\ phase[h] = "init"
  BY AtInitType DEF AtInit, InitStep
<1>1. TypeOK'
  <2>1. FilledBy(InitStep(h)) \subseteq Blocks
    BY AtInitType, FilledByType
  <2>. QED BY <1>0, <2>1 DEF TypeOK, CodeStates
<1>2. OnlyUntestedCrash'
  BY <1>0, CrashedStay DEF TypeOK
<1>3. ASSUME NEW x \in Handles
      PROVE  (AbsentOK(x) /\ InitOK(x) /\ HeldOK(x) /\ DestroyOK(x))'
  <2>1. CASE x = h
    <3>a. mem[h] = Before(k, i) /\ ptr[h] = mem[h] /\ code[h] = CodeAt(k, i)
      <4>1. Lacking(k, i) = {}
        BY <1>0, LackingUsed DEF Calls, Blocks
      <4>. QED BY <1>0, <4>1 DEF InitOK
    <3>1. /\ phase'[h] = "init" /\ kind'[h] = k /\ at'[h] = i + 1
          /\ mem'[h] = Before(k, i + 1) /\ ptr'[h] = mem'[h]
          /\ sub'[h] = sub[h]
      BY <1>0, <3>a, BeforeNext DEF TypeOK
    <3>b. FilledBefore(k, i + 1) \subseteq full'[h] \cup Unfilled(k)
      <4>1. full'[h] = full[h] \cup FilledBy(InitSteps[k][i])
        BY <1>0 DEF TypeOK
      <4>. QED BY <1>0, <4>1, FilledNext DEF InitOK
    <3>2. code'[h] = CodeAt(k, i + 1)
      <4>1. InitStep(h) = "transform_base" <=> i = 7 /\ k = "dynamic"
        BY <1>0, InitTable
      <4>2. /\ InitStep(h) # "codegen" /\ InitStep(h) # "allow_execute"
            /\ InitStep(h) # "flush"
        BY DEF Blocks
      <4>3. k = "dynamic" => i # 8 /\ i # 9 /\ i # 10
        BY <1>0, <4>2, InitTable
      <4>4. Len(InitSteps[k]) \in Nat /\ Len(InitSteps[k]) <= 10
        BY <1>0, InitTable
      <4>. QED BY <1>0, <3>a, <4>1, <4>3, <4>4 DEF TypeOK, CodeAt
    <3>3. i + 1 <= Len(InitSteps[k]) + 1
      BY <1>0
    <3>4. sub[h] # NoPlan <=> k \in Nesting /\ i + 1 > 2
      <4>1. ~(k \in Nesting /\ i = 2)
        BY <1>0, InitTable DEF Blocks
      <4>. QED BY <1>0, <4>1 DEF InitOK
    <3>. QED BY <2>1, <3>1, <3>b, <3>2, <3>3, <3>4 DEF AbsentOK, InitOK, HeldOK, DestroyOK
  <2>2. CASE x # h
    BY <2>2 DEF TypeOK, AbsentOK, InitOK, HeldOK, DestroyOK
  <2>. QED BY <2>1, <2>2
<1>4. ASSUME NEW x \in Handles
      PROVE  (SubOK(x) /\ BossOK(x))'
  BY NoPlanAssumption, <1>0 DEF TypeOK, SubOK, BossOK, AtInit, Blocked, Busy, Active
<1>5. OneCall'
  BY DEF TypeOK, OneCall, Busy, Active
<1>. QED BY <1>1, <1>2, <1>3, <1>4, <1>5

LEMMA CallStep ==
    ASSUME IInv, NEW h \in Handles, Call(h)
    PROVE  IInv'
<1>. USE DEF IInv, Call
<1>. DEFINE k == kind[h]
            i == at[h]
<1>0. /\ k \in AllKinds
      /\ i \in 1..Len(InitSteps[k])
      /\ Len(InitSteps[k]) \in Nat
      /\ InitStep(h) = InitSteps[k][i]
      /\ phase[h] = "init"
  BY AtInitType DEF AtInit, InitStep
<1>1. TypeOK'
  <2>1. FilledBy(InitStep(h)) \subseteq Blocks
    BY AtInitType, FilledByType
  <2>. QED BY <1>0, <2>1 DEF TypeOK, CodeStates
<1>2. OnlyUntestedCrash'
  BY <1>0, CrashedStay DEF TypeOK
<1>3. ASSUME NEW x \in Handles
      PROVE  (AbsentOK(x) /\ InitOK(x) /\ HeldOK(x) /\ DestroyOK(x))'
  <2>1. CASE x = h
    <3>0. InitStep(h) \notin Blocks
      BY DEF Calls, Blocks
    <3>a. Before(k, i + 1) = Before(k, i)
      <4>1. Before(k, i + 1) = Before(k, i) \cup ({InitSteps[k][i]} \cap Blocks)
        BY <1>0, BeforeNext
      <4>2. {InitSteps[k][i]} \cap Blocks = {}
        BY <1>0, <3>0
      <4>. QED BY <4>1, <4>2
    <3>c. mem[h] = Before(k, i) /\ ptr[h] = mem[h] /\ code[h] = CodeAt(k, i)
      <4>1. Lacking(k, i) \subseteq mem[h]
        BY <1>0, LackingUsed DEF Ready
      <4>. QED BY <1>0, <4>1 DEF InitOK
    <3>1. /\ phase'[h] = "init" /\ kind'[h] = k /\ at'[h] = i + 1
          /\ mem'[h] = Before(k, i + 1) /\ ptr'[h] = mem'[h]
          /\ sub'[h] = sub[h]
      BY <1>0, <3>a, <3>c DEF TypeOK
    <3>b. FilledBefore(k, i + 1) \subseteq full'[h] \cup Unfilled(k)
      <4>1. full'[h] = full[h] \cup FilledBy(InitSteps[k][i])
        BY <1>0 DEF TypeOK
      <4>. QED BY <1>0, <4>1, FilledNext DEF InitOK
    <3>2. code'[h] = CodeAt(k, i + 1)
      <4>1. /\ InitStep(h) = "codegen" <=> i = 8 /\ k = "dynamic"
            /\ InitStep(h) = "allow_execute" <=> i = 9 /\ k = "dynamic"
            /\ InitStep(h) = "flush" <=> i = 10 /\ k = "dynamic"
            /\ InitStep(h) = "transform_base" <=> i = 7 /\ k = "dynamic"
        BY <1>0, InitTable
      <4>2. k = "dynamic" => i # 7
        BY <1>0, <4>1 DEF Calls
      <4>3. Len(InitSteps[k]) \in Nat /\ Len(InitSteps[k]) <= 10
        BY <1>0, InitTable
      <4>. QED BY <1>0, <3>c, <4>1, <4>2, <4>3 DEF TypeOK, CodeAt
    <3>3. i + 1 <= Len(InitSteps[k]) + 1
      BY <1>0
    <3>4. sub[h] # NoPlan <=> k \in Nesting /\ i + 1 > 2
      <4>1. ~(k \in Nesting /\ i = 2)
        BY <1>0, InitTable DEF Calls
      <4>. QED BY <1>0, <4>1 DEF InitOK
    <3>. QED BY <2>1, <3>1, <3>b, <3>2, <3>3, <3>4 DEF AbsentOK, InitOK, HeldOK, DestroyOK
  <2>2. CASE x # h
    BY <2>2 DEF TypeOK, AbsentOK, InitOK, HeldOK, DestroyOK
  <2>. QED BY <2>1, <2>2
<1>4. ASSUME NEW x \in Handles
      PROVE  (SubOK(x) /\ BossOK(x))'
  BY NoPlanAssumption, <1>0 DEF TypeOK, SubOK, BossOK, AtInit, Blocked, Busy, Active
<1>5. OneCall'
  BY DEF TypeOK, OneCall, Busy, Active
<1>. QED BY <1>1, <1>2, <1>3, <1>4, <1>5

\* A call that crashes misses only a block whose allocation is untested, or its
\* own scratch memory; its caller waits for it forever.
LEMMA CrashStep ==
    ASSUME IInv, NEW h \in Handles, AtInit(h), InitStep(h) \in Calls,
           Ready(h) => Untested(h, InitStep(h)),
           phase' = [phase EXCEPT ![h] = "crashed"],
           UNCHANGED <<kind, at, ptr, mem, full, sub, boss, code>>
    PROVE  IInv'
<1>. USE DEF IInv
<1>. DEFINE k == kind[h]
            i == at[h]
<1>0. /\ k \in AllKinds
      /\ i \in 1..Len(InitSteps[k])
      /\ InitStep(h) = InitSteps[k][i]
      /\ phase[h] = "init" /\ InitOK(h)
  BY AtInitType DEF AtInit, InitStep
<1>1. TypeOK'
  BY DEF TypeOK, Phases
<1>2. OnlyUntestedCrash'
  <2>1. Before(k, i) \ mem[h] \subseteq Lacking(k, i)
    BY <1>0 DEF InitOK
  <2>2. \A b \in Uses[InitStep(h)] \ mem[h] : Untested(h, b)
    BY <1>0, <2>1, UsesBefore DEF Lacking, Untested
  <2>3. Uses[InitStep(h)] \subseteq mem[h] => Ready(h)
    <3>1. InitStep(h) = "codegen" <=> i = 8 /\ k = "dynamic"
      BY <1>0, InitTable
    <3>2. "transform_base" \in mem[h] => code[h] = CodeAt(k, i)
      BY <1>0 DEF InitOK
    <3>. QED BY <3>1, <3>2 DEF Ready, Uses, CodeAt
  <2>4. ASSUME NEW x \in Handles, phase'[x] = "crashed"
        PROVE  /\ InitStep(x)' \in Calls
               /\ \A b \in (Uses[InitStep(x)] \ mem[x])' : Untested(x, b)'
               /\ (Uses[InitStep(x)] \subseteq mem[x])' => Untested(x, InitStep(x))'
    <3>1. InitStep(x)' = InitStep(x) /\ mem'[x] = mem[x] /\ kind'[x] = kind[x]
      BY DEF InitStep
    <3>2. CASE x = h
      BY <2>2, <2>3, <3>1, <3>2 DEF Untested
    <3>3. CASE x # h
      <4>1. phase[x] = "crashed"
        BY <2>4, <3>3 DEF TypeOK
      <4>. QED BY <3>1, <4>1 DEF OnlyUntestedCrash, Untested
    <3>. QED BY <3>2, <3>3
  <2>. QED BY <2>4 DEF OnlyUntestedCrash
<1>3. ASSUME NEW x \in Handles
      PROVE  (AbsentOK(x) /\ InitOK(x) /\ HeldOK(x) /\ DestroyOK(x))'
  <2>1. CASE x = h
    BY <2>1 DEF TypeOK, AbsentOK, InitOK, HeldOK, DestroyOK
  <2>2. CASE x # h
    BY <2>2 DEF TypeOK, AbsentOK, InitOK, HeldOK, DestroyOK
  <2>. QED BY <2>1, <2>2
<1>4. ASSUME NEW x \in Handles
      PROVE  (SubOK(x) /\ BossOK(x))'
  BY NoPlanAssumption, <1>0 DEF TypeOK, SubOK, BossOK, AtInit, Blocked, Busy, Active
<1>5. OneCall'
  BY <1>0 DEF TypeOK, OneCall, Busy, Active
<1>. QED BY <1>1, <1>2, <1>3, <1>4, <1>5

\* The init goes on after a failure that it does not test for, one block short or
\* with one of its tables not filled.
LEMMA UnnoticedStep ==
    ASSUME IInv, NEW h \in Handles, StepFailsUnnoticed(h), InitStep(h) # "luts"
    PROVE  IInv'
<1>. USE DEF IInv
<1>. DEFINE k == kind[h]
            i == at[h]
<1>0. /\ k \in AllKinds
      /\ i \in 1..Len(InitSteps[k])
      /\ Len(InitSteps[k]) \in Nat
      /\ InitStep(h) = InitSteps[k][i]
      /\ InitStep(h) \in Steps
      /\ phase[h] = "init" /\ InitOK(h)
      /\ Untested(h, InitStep(h))
  BY AtInitType DEF StepFailsUnnoticed, Fails, AtInit, InitStep, Untested
<1>a. /\ at' = [at EXCEPT ![h] = i + 1]
      /\ UNCHANGED <<phase, kind, ptr, mem, full, sub, boss>>
      /\ code' = IF InitStep(h) = "transform_base"
                 THEN [code EXCEPT ![h] = "failed"] ELSE code
  BY DEF StepFailsUnnoticed
<1>b. \/ k = "chirp_z" /\ InitStep(h) = "buf" /\ i = 5
      \/ k = "chirp_z" /\ InitStep(h) = "chirp" /\ i = 6
      \/ k = "dynamic" /\ InitStep(h) = "transform_base" /\ i = 7
  <2>1. \/ k = "chirp_z" /\ InitStep(h) \in {"buf", "chirp"}
        \/ k = "dynamic" /\ InitStep(h) = "transform_base"
    BY <1>0 DEF StepFailsUnnoticed, Untested, Unchecked
  <2>. QED BY <1>0, <2>1, InitTable
<1>1. TypeOK'
  BY <1>0, <1>a DEF TypeOK, CodeStates
<1>2. OnlyUntestedCrash'
  BY <1>0, <1>a, CrashedStay DEF TypeOK
<1>3. ASSUME NEW x \in Handles
      PROVE  (AbsentOK(x) /\ InitOK(x) /\ HeldOK(x) /\ DestroyOK(x))'
  <2>1. CASE x = h
    <3>1. /\ phase'[h] = "init" /\ kind'[h] = k /\ at'[h] = i + 1
          /\ mem'[h] = mem[h] /\ ptr'[h] = ptr[h] /\ full'[h] = full[h]
          /\ sub'[h] = sub[h]
      BY <1>0, <1>a DEF TypeOK
    <3>2. mem[h] = Before(k, i) /\ code[h] = CodeAt(k, i)
      <4>1. InitStep(h) \in Calls => Ready(h)
        BY DEF StepFailsUnnoticed
      <4>2. Lacking(k, i) \subseteq mem[h]
        BY <1>0, <4>1, LackingUsed DEF Ready
      <4>. QED BY <1>0, <4>2 DEF InitOK
    <3>3. Before(k, i + 1) = Before(k, i) \cup ({InitStep(h)} \cap Blocks)
      BY <1>0, BeforeNext
    <3>4. FilledBefore(k, i + 1) \subseteq full[h] \cup Unfilled(k)
      <4>1. FilledBy(InitStep(h)) \subseteq Unfilled(k)
        BY <1>0, <1>b DEF FilledBy, Unfilled, Untested
      <4>. QED BY <1>0, <4>1, FilledNext DEF InitOK
    <3>5. Before(k, i + 1) \ mem[h] \subseteq Lacking(k, i + 1)
      BY <1>0, <1>b, <3>2, <3>3 DEF Lacking, Untested, Blocks
    <3>6. code'[h] = IF "transform_base" \in Before(k, i + 1) \ mem[h]
                     THEN "failed" ELSE CodeAt(k, i + 1)
      <4>1. CASE InitStep(h) = "transform_base"
        <5>1. "transform_base" \notin Before(k, i)
          BY <1>0, <1>b, <4>1, InitTable DEF Before
        <5>. QED BY <1>a, <3>2, <3>3, <4>1, <5>1 DEF TypeOK, Blocks
      <4>2. CASE InitStep(h) # "transform_base"
        BY <1>a, <1>b, <3>2, <3>3, <4>2 DEF CodeAt
      <4>. QED BY <4>1, <4>2
    <3>7. i + 1 <= Len(InitSteps[k]) + 1
      BY <1>0
    <3>8. sub[h] # NoPlan <=> k \in Nesting /\ i + 1 > 2
      BY <1>0, <1>b DEF InitOK
    <3>9. mem[h] \subseteq Before(k, i + 1) /\ ptr[h] = mem[h]
      BY <1>0, <3>2, <3>3 DEF InitOK
    <3>. QED BY <2>1, <3>1, <3>4, <3>5, <3>6, <3>7, <3>8, <3>9
             DEF AbsentOK, InitOK, HeldOK, DestroyOK
  <2>2. CASE x # h
    <3>1. at'[x] = at[x] /\ code'[x] = code[x]
      BY <1>a, <2>2 DEF TypeOK
    <3>. QED BY <1>a, <3>1 DEF AbsentOK, InitOK, HeldOK, DestroyOK
  <2>. QED BY <2>1, <2>2
<1>4. ASSUME NEW x \in Handles
      PROVE  (SubOK(x) /\ BossOK(x))'
  <2>1. phase[x] \in Busy => boss[x] # h
    BY DEF StepFailsUnnoticed, Fails, AtInit, Blocked, Busy
  <2>2. SubOK(x) /\ BossOK(x) /\ boss[x] \in Handles \cup {NoPlan}
    BY DEF TypeOK
  <2>3. boss[x] # NoPlan /\ boss[x] # h => at'[boss[x]] = at[boss[x]]
    BY <1>a, <2>2 DEF TypeOK
  <2>. QED BY <1>a, <2>1, <2>2, <2>3 DEF SubOK, BossOK, Busy, Active
<1>5. OneCall'
  BY <1>a DEF OneCall
<1>. QED BY <1>1, <1>2, <1>3, <1>4, <1>5

\* goto cleanup, from a step that keeps the struct and its blocks as they are.
LEMMA CleanupStep ==
    ASSUME IInv, NEW h \in Handles, AtInit(h), at[h] > 1, ToCleanup(h),
           UNCHANGED <<kind, ptr, mem, full, sub, boss, code>>
    PROVE  IInv'
<1>. USE DEF IInv, ToCleanup
<1>. DEFINE k == kind[h]
            i == at[h]
<1>0. /\ k \in AllKinds
      /\ i \in 1..Len(InitSteps[k])
      /\ Len(InitSteps[k]) \in Nat
      /\ phase[h] = "init"
  BY AtInitType DEF AtInit
<1>1. TypeOK'
  BY <1>0 DEF TypeOK, Phases
<1>2. OnlyUntestedCrash'
  BY <1>0, CrashedStay DEF TypeOK
<1>3. ASSUME NEW x \in Handles
      PROVE  (AbsentOK(x) /\ InitOK(x) /\ HeldOK(x) /\ DestroyOK(x))'
  <2>1. CASE x = h
    <3>1. /\ phase'[h] = "cleanup" /\ kind'[h] = k /\ at'[h] = 1
          /\ mem'[h] = mem[h] /\ ptr'[h] = ptr[h] /\ sub'[h] = sub[h]
          /\ code'[h] = code[h]
      BY <1>0 DEF TypeOK
    <3>2. /\ mem[h] \subseteq Before(k, i) /\ Before(k, i) \ mem[h] \subseteq Lacking(k, i)
          /\ ptr[h] = mem[h]
          /\ code[h] = IF "transform_base" \in Before(k, i) \ mem[h]
                       THEN "failed" ELSE CodeAt(k, i)
      BY <1>0 DEF InitOK
    <3>3. ptr[h] \subseteq Remaining(k, 1)
      BY <1>0, <3>2, StoredIsReleased
    <3>4. "self" \in ptr[h]
      <4>1. InitSteps[k][1] = "self" /\ 1 \in 1..Len(InitSteps[k]) /\ 1 < i
        BY <1>0, InitTable
      <4>2. "self" \notin Lacking(k, i)
        BY DEF Lacking, Unchecked
      <4>. QED BY <3>2, <4>1, <4>2 DEF Before, Blocks
    <3>5. 1 <= Len(DestroySteps[k]) /\ (k \in Nesting => 4 <= Len(DestroySteps[k]))
      BY <1>0, DestroyLength
    <3>6. code[h] # "none" => k = "dynamic"
      <4>1. "transform_base" \in Lacking(k, i) => k = "dynamic"
        BY DEF Lacking, Unchecked
      <4>. QED BY <3>2, <4>1 DEF CodeAt
    <3>7. sub[h] # NoPlan => k \in Nesting
      BY <1>0 DEF InitOK
    <3>8. mem[h] = ptr[h] \cap Remaining(k, 1)
      BY <3>2, <3>3
    <3>. QED BY <2>1, <3>1, <3>3, <3>4, <3>5, <3>6, <3>7, <3>8 DEF AbsentOK, InitOK, HeldOK, DestroyOK
  <2>2. CASE x # h
    BY <2>2 DEF TypeOK, AbsentOK, InitOK, HeldOK, DestroyOK
  <2>. QED BY <2>1, <2>2
<1>4. ASSUME NEW x \in Handles
      PROVE  (SubOK(x) /\ BossOK(x))'
  BY NoPlanAssumption, <1>0 DEF TypeOK, SubOK, BossOK, AtInit, Blocked, Busy, Active
<1>5. OneCall'
  BY <1>0 DEF TypeOK, OneCall, Busy, Active
<1>. QED BY <1>1, <1>2, <1>3, <1>4, <1>5

LEMMA FinishStep ==
    ASSUME IInv, NEW h \in Handles, Finish(h)
    PROVE  IInv'
<1>. USE DEF IInv, Finish
<1>. DEFINE k == kind[h]
            i == at[h]
            b == boss[h]
            n == Len(InitSteps[k])
<1>0. /\ k \in AllKinds /\ n \in Nat /\ i = n + 1 /\ phase[h] = "init"
      /\ mem[h] = Before(k, n + 1) /\ ptr[h] = mem[h] /\ code[h] = CodeAt(k, n + 1)
      /\ FilledBefore(k, n + 1) \subseteq full[h] \cup Unfilled(k)
      /\ sub[h] # NoPlan <=> k \in Nesting /\ i > 2
  <2>1. k \in AllKinds /\ phase[h] = "init" /\ i \in Nat /\ i > n
    BY DEF TypeOK
  <2>2. n \in Nat
    BY <2>1, InitTable
  <2>3. InitOK(h)
    OBVIOUS
  <2>4. i <= n + 1
    BY <2>1, <2>3 DEF InitOK
  <2>5. i = n + 1
    BY <2>1, <2>2, <2>4
  <2>6. Lacking(k, n + 1) = {}
    BY <2>1, LackingAtEnd
  <2>. QED BY <2>1, <2>2, <2>3, <2>5, <2>6 DEF InitOK
<1>a. sub[h] # NoPlan <=> k \in Nesting
  BY <1>0, InitTable
<1>b. code[h] = IF k = "dynamic" THEN "flushed" ELSE "none"
  BY <1>0, InitTable DEF CodeAt
<1>c. b # NoPlan => /\ b \in Handles /\ b # h
                    /\ phase[b] = "init" /\ kind[b] \in Nesting /\ at[b] = 2
  BY <1>0, NoPlanAssumption, InitTable DEF TypeOK, BossOK
<1>d. h # NoPlan
  BY NoPlanAssumption
<1>1. TypeOK'
  <2>1. CASE b = NoPlan
    BY <2>1 DEF TypeOK, Phases
  <2>2. CASE b # NoPlan
    <3>1. at' \in [Handles -> Nat \ {0}]
      <4>1. at' = [at EXCEPT ![h] = 1, ![b] = 3]
        BY <1>c, <2>2 DEF TypeOK
      <4>2. at \in [Handles -> Nat \ {0}] /\ 1 \in Nat \ {0} /\ 3 \in Nat \ {0}
        BY DEF TypeOK
      <4>. HIDE DEF IInv, Finish
      <4>. QED BY <4>1, <4>2
    <3>2. sub' \in [Handles -> Handles \cup {NoPlan}]
      BY <1>c, <2>2 DEF TypeOK
    <3>. QED BY <2>2, <3>1, <3>2 DEF TypeOK, Phases
  <2>. QED BY <2>1, <2>2
<1>2. OnlyUntestedCrash'
  <2>1. CASE b = NoPlan
    BY <1>0, <2>1, CrashedStay DEF TypeOK
  <2>2. CASE b # NoPlan
    BY <1>0, <1>c, <2>2, CrashedStay DEF TypeOK
  <2>. QED BY <2>1, <2>2
<1>3. ASSUME NEW x \in Handles
      PROVE  (AbsentOK(x) /\ InitOK(x) /\ HeldOK(x) /\ DestroyOK(x))'
  <2>1. CASE x = h
    <3>1. /\ phase'[h] = "held" /\ kind'[h] = k /\ at'[h] = 1
          /\ mem'[h] = mem[h] /\ ptr'[h] = ptr[h] /\ sub'[h] = sub[h]
          /\ code'[h] = code[h] /\ full'[h] = full[h]
      BY <1>c DEF TypeOK
    <3>. QED BY <1>0, <1>a, <1>b, <2>1, <3>1 DEF AbsentOK, InitOK, HeldOK, DestroyOK
  <2>2. CASE x = b
    <3>1. /\ phase'[b] = "init" /\ kind'[b] = kind[b] /\ at'[b] = 3
          /\ mem'[b] = mem[b] /\ ptr'[b] = ptr[b] /\ sub'[b] = h
          /\ code'[b] = code[b] /\ full'[b] = full[b] /\ kind[b] \in AllKinds
      BY <1>c, <2>2, NoPlanAssumption DEF TypeOK
    <3>2. /\ 2 \in 1..Len(InitSteps[kind[b]])
          /\ InitSteps[kind[b]][2] = "plan0"
      <4>1. /\ kind[b] \in Nesting
            /\ Len(InitSteps[kind[b]]) \in Nat /\ Len(InitSteps[kind[b]]) >= 6
        BY <1>c, <2>2, <3>1, NoPlanAssumption, InitTable
      <4>2. 2 \in 1..Len(InitSteps[kind[b]])
        BY <4>1
      <4>. QED BY <3>1, <4>1, <4>2, InitTable
    <3>3. Before(kind[b], 3) = Before(kind[b], 2)
      <4>1. Before(kind[b], 2 + 1)
                = Before(kind[b], 2) \cup ({InitSteps[kind[b]][2]} \cap Blocks)
        BY <3>1, <3>2, BeforeNext
      <4>2. {InitSteps[kind[b]][2]} \cap Blocks = {}
        BY <3>2 DEF Blocks
      <4>3. 2 + 1 = 3
        OBVIOUS
      <4>. QED BY <4>1, <4>2, <4>3
    <3>a. FilledBefore(kind[b], 3) = FilledBefore(kind[b], 2)
      <4>1. FilledBefore(kind[b], 2 + 1)
                = FilledBefore(kind[b], 2) \cup FilledBy(InitSteps[kind[b]][2])
        BY <3>1, <3>2, FilledNext
      <4>2. FilledBy(InitSteps[kind[b]][2]) = {}
        BY <3>2 DEF FilledBy
      <4>3. 2 + 1 = 3
        OBVIOUS
      <4>. QED BY <4>1, <4>2, <4>3
    <3>4. CodeAt(kind[b], 3) = CodeAt(kind[b], 2)
      BY DEF CodeAt
    <3>b. Lacking(kind[b], 2) = {}
      BY DEF Lacking
    <3>5. /\ phase[b] = "init" /\ at[b] = 2 /\ kind[b] \in Nesting
      BY <1>c, <2>2, NoPlanAssumption
    <3>6. InitOK(b)
      BY <2>2
    <3>. QED BY <1>d, <2>2, <3>1, <3>2, <3>3, <3>a, <3>b, <3>4, <3>5, <3>6 DEF AbsentOK, InitOK, HeldOK, DestroyOK
  <2>3. CASE x # h /\ x # b
    BY <2>3 DEF TypeOK, AbsentOK, InitOK, HeldOK, DestroyOK
  <2>. QED BY <2>1, <2>2, <2>3
<1>4. ASSUME NEW x \in Handles
      PROVE  (SubOK(x) /\ BossOK(x))'
  <2>1. b # NoPlan => sub[b] = NoPlan
    BY <1>c DEF InitOK
  <2>2. phase[x] \in Busy => boss[x] # h
    <3>1. n \in Nat /\ (k \in Nesting => n >= 6)
      BY <1>0, InitTable
    <3>2. k \in Nesting => i # 2
      <4>. HIDE DEF n
      <4>. QED BY <1>0, <3>1
    <3>3. BossOK(x)
      OBVIOUS
    <3>. QED BY <1>0, <1>d, <3>2, <3>3 DEF BossOK, Busy, Active
  <2>3. b # NoPlan /\ x # h => phase[x] \notin Busy \/ boss[x] # b
    BY <1>0 DEF OneCall, Busy, Active
  <2>4. b # NoPlan /\ phase[x] = "held" => boss[x] # b
    BY <1>c, <2>1, NoPlanAssumption DEF BossOK
  <2>5. SubOK(x) /\ BossOK(x)
    OBVIOUS
  <2>6. CASE b = NoPlan
    <3>1. SubOK(x)'
      BY <1>0, <2>5, <2>6 DEF TypeOK, SubOK
    <3>2. BossOK(x)'
      <4>1. CASE x = h
        BY <2>6, <4>1 DEF BossOK
      <4>2. CASE x # h
        BY <2>2, <2>5, <2>6, <4>2 DEF TypeOK, BossOK, Busy, Active
      <4>. QED BY <4>1, <4>2
    <3>. QED BY <3>1, <3>2
  <2>7. CASE b # NoPlan
    <3>1. SubOK(x)'
      <4>1. CASE x = b
        BY <1>c, <2>7, <4>1 DEF TypeOK, SubOK
      <4>2. CASE x # b
        <5>1. sub'[x] = sub[x]
          BY <1>c, <2>7, <4>2 DEF TypeOK
        <5>2. sub[x] # h
          BY <1>0, <1>d, <2>5 DEF SubOK
        <5>3. sub[x] \in Handles \cup {NoPlan}
          BY DEF TypeOK
        <5>. QED BY <2>5, <5>1, <5>2, <5>3 DEF TypeOK, SubOK
      <4>. QED BY <4>1, <4>2
    <3>2. BossOK(x)'
      <4>1. CASE x = h
        BY <1>0, <1>c, <2>7, <4>1 DEF TypeOK, BossOK
      <4>2. CASE x # h
        BY <1>0, <1>c, <2>2, <2>3, <2>4, <2>5, <2>7, <4>2 DEF TypeOK, BossOK, Busy, Active
      <4>. QED BY <4>1, <4>2
    <3>. QED BY <3>1, <3>2
  <2>. QED BY <2>6, <2>7
<1>5. OneCall'
  BY <1>0 DEF TypeOK, OneCall, Busy, Active
<1>. QED BY <1>1, <1>2, <1>3, <1>4, <1>5

\* The struct of h is returned as NULL, or was the last block of h to go: h is
\* absent again and, if it was being made for b, b goes to its cleanup label.
LEMMA LeaveStep ==
    ASSUME IInv, NEW h \in Handles, phase[h] \in Active, sub[h] = NoPlan,
           ~Blocked(h),
           mem' = [mem EXCEPT ![h] = {}], ptr' = [ptr EXCEPT ![h] = {}],
           at[h] # 1 => at'[h] = 1, code[h] = "none", UNCHANGED <<sub, code>>,
           Forget(h),
           IF phase[h] \in {"init", "cleanup"} /\ boss[h] # NoPlan
           THEN /\ phase' = [phase EXCEPT ![h] = "absent", ![boss[h]] = "cleanup"]
                /\ at' = [at EXCEPT ![h] = 1, ![boss[h]] = 1]
           ELSE /\ phase' = [phase EXCEPT ![h] = "absent"]
                /\ at' = [at EXCEPT ![h] = 1]
    PROVE  IInv'
<1>. USE DEF IInv, Forget
<1>. DEFINE b == boss[h]
            up == phase[h] \in {"init", "cleanup"} /\ b # NoPlan
<1>a. up => /\ b \in Handles /\ b # h
            /\ phase[b] = "init" /\ kind[b] \in Nesting /\ at[b] = 2
            /\ kind[b] \in AllKinds
  <2>1. BossOK(h) /\ b \in Handles \cup {NoPlan}
    BY DEF TypeOK
  <2>2. phase[h] = "init" /\ up /\ b = h => FALSE
    BY DEF Blocked, Busy, Active
  <2>. QED BY <2>1, <2>2 DEF BossOK, TypeOK
<1>b. h # NoPlan
  BY NoPlanAssumption
<1>1. TypeOK'
  <2>0. "small" \in AllKinds
    BY DEF AllKinds
  <2>1. CASE ~up
    BY <2>0, <2>1 DEF TypeOK, Phases
  <2>2. CASE up
    <3>1. phase' \in [Handles -> Phases] /\ at' \in [Handles -> Nat \ {0}]
      <4>1. phase \in [Handles -> Phases] /\ at \in [Handles -> Nat \ {0}]
        BY DEF TypeOK
      <4>2. /\ phase' = [phase EXCEPT ![h] = "absent", ![b] = "cleanup"]
            /\ at' = [at EXCEPT ![h] = 1, ![b] = 1]
        BY <2>2
      <4>3. "absent" \in Phases /\ "cleanup" \in Phases /\ 1 \in Nat \ {0}
        BY DEF Phases
      <4>. HIDE DEF IInv, Forget
      <4>. QED BY <4>1, <4>2, <4>3
    <3>. QED BY <2>0, <2>2, <3>1 DEF TypeOK
  <2>. QED BY <2>1, <2>2
<1>2. OnlyUntestedCrash'
  <2>1. CASE ~up
    BY <2>1, CrashedStay DEF TypeOK, Busy, Active
  <2>2. CASE up
    BY <1>a, <2>2, CrashedStay DEF TypeOK, Busy, Active
  <2>. QED BY <2>1, <2>2
<1>3. ASSUME NEW x \in Handles
      PROVE  (AbsentOK(x) /\ InitOK(x) /\ HeldOK(x) /\ DestroyOK(x))'
  <2>1. CASE x = h
    <3>1. /\ phase'[h] = "absent" /\ at'[h] = 1 /\ mem'[h] = {} /\ ptr'[h] = {}
          /\ sub'[h] = NoPlan /\ boss'[h] = NoPlan /\ code'[h] = "none"
      BY <1>a DEF TypeOK
    <3>. QED BY <2>1, <3>1 DEF AbsentOK, InitOK, HeldOK, DestroyOK
  <2>2. CASE x # h /\ up /\ x = b
    <3>1. /\ phase'[b] = "cleanup" /\ kind'[b] = kind[b] /\ at'[b] = 1
          /\ mem'[b] = mem[b] /\ ptr'[b] = ptr[b] /\ sub'[b] = sub[b]
          /\ code'[b] = code[b]
      BY <1>a, <2>2 DEF TypeOK
    <3>2. /\ mem[b] = Before(kind[b], 2) /\ ptr[b] = mem[b]
          /\ code[b] = CodeAt(kind[b], 2)
          /\ sub[b] = NoPlan
      <4>1. Lacking(kind[b], 2) = {}
        BY DEF Lacking
      <4>2. InitOK(b) /\ phase[b] = "init" /\ at[b] = 2
        BY <1>a, <2>2
      <4>3. Before(kind[b], 2) \ mem[b] = {} /\ mem[b] = Before(kind[b], 2)
        BY <4>1, <4>2 DEF InitOK
      <4>. QED BY <4>2, <4>3 DEF InitOK
    <3>3. ptr[b] \subseteq Remaining(kind[b], 1)
      BY <1>a, <2>2, <3>2, StoredIsReleased
    <3>4. "self" \in ptr[b]
      <4>1. InitSteps[kind[b]][1] = "self" /\ 1 \in 1..Len(InitSteps[kind[b]]) /\ 1 < 2
        BY <1>a, <2>2, InitTable
      <4>. QED BY <3>2, <4>1 DEF Before, Blocks
    <3>5. 1 <= Len(DestroySteps[kind[b]])
      BY <1>a, <2>2, DestroyLength
    <3>6. code[b] = "none"
      BY <3>2 DEF CodeAt
    <3>7. mem[b] = ptr[b] \cap Remaining(kind[b], 1)
      BY <3>2, <3>3
    <3>. QED BY <2>2, <3>1, <3>2, <3>3, <3>4, <3>5, <3>6, <3>7
             DEF AbsentOK, InitOK, HeldOK, DestroyOK
  <2>3. CASE x # h /\ ~(up /\ x = b)
    <3>1. /\ phase'[x] = phase[x] /\ kind'[x] = kind[x] /\ at'[x] = at[x]
          /\ mem'[x] = mem[x] /\ ptr'[x] = ptr[x] /\ sub'[x] = sub[x]
          /\ code'[x] = code[x] /\ boss'[x] = boss[x] /\ full'[x] = full[x]
      BY <1>a, <2>3 DEF TypeOK
    <3>. QED BY <3>1 DEF AbsentOK, InitOK, HeldOK, DestroyOK
  <2>. QED BY <2>1, <2>2, <2>3
<1>4. ASSUME NEW x \in Handles
      PROVE  (SubOK(x) /\ BossOK(x))'
  <2>1. SubOK(x) /\ BossOK(x) /\ sub[x] \in Handles \cup {NoPlan}
        /\ boss[x] \in Handles \cup {NoPlan}
    BY DEF TypeOK
  <2>2. phase[x] \in Busy => boss[x] # h
    BY DEF Blocked, Busy
  <2>3. phase[x] = "held" => boss[x] # h
    BY <1>b, <2>1, NoPlanAssumption DEF BossOK
  <2>4. up /\ x # h => phase[x] \notin Busy \/ boss[x] # b
    BY DEF OneCall, Busy
  <2>5. sub[x] # h
    BY <1>b, <2>1 DEF SubOK, Busy, Active
  <2>6. sub[x] # NoPlan => ~(up /\ sub[x] = b)
    BY <1>a, <2>1 DEF SubOK
  <2>7. SubOK(x)'
    <3>1. sub[x] # NoPlan => phase'[sub[x]] = "held" /\ boss'[sub[x]] = x
      BY <1>a, <2>1, <2>5, <2>6 DEF TypeOK, SubOK
    <3>. QED BY <3>1 DEF SubOK
  <2>8. BossOK(x)'
    <3>1. CASE x = h
      BY <3>1 DEF TypeOK, BossOK
    <3>2. CASE up /\ x = b
      <4>1. phase'[b] = "cleanup" /\ boss'[b] = boss[b]
        BY <1>a, <3>2 DEF TypeOK
      <4>2. boss[b] # NoPlan =>
                /\ phase[boss[b]] = "init" /\ kind[boss[b]] \in Nesting /\ at[boss[b]] = 2
                /\ boss[b] # h /\ boss[b] # b /\ boss[b] \in Handles
        <5>1. boss[b] # NoPlan => boss[b] # b
          BY <1>a, <3>2, <2>4 DEF Busy, Active
        <5>. QED BY <1>a, <2>1, <2>2, <3>2, <5>1 DEF BossOK, Busy, Active
      <4>. QED BY <1>a, <3>2, <4>1, <4>2 DEF TypeOK, BossOK
    <3>3. CASE x # h /\ ~(up /\ x = b)
      <4>1. /\ phase'[x] = phase[x] /\ boss'[x] = boss[x] /\ sub' = sub
        BY <1>a, <3>3 DEF TypeOK
      <4>2. boss[x] # NoPlan /\ phase[x] \in Busy =>
                /\ boss[x] # h /\ ~(up /\ boss[x] = b)
                /\ phase'[boss[x]] = phase[boss[x]] /\ at'[boss[x]] = at[boss[x]]
                /\ kind'[boss[x]] = kind[boss[x]]
        BY <1>a, <2>1, <2>2, <2>4, <3>3 DEF TypeOK
      <4>. QED BY <2>1, <4>1, <4>2 DEF BossOK, Busy, Active
    <3>. QED BY <3>1, <3>2, <3>3
  <2>. QED BY <2>7, <2>8
<1>5. OneCall'
  <2>. SUFFICES ASSUME NEW g1 \in Handles, NEW g2 \in Handles,
                       boss'[g1] # NoPlan, boss'[g1] = boss'[g2],
                       phase'[g1] \in Busy, phase'[g2] \in Busy
                PROVE  g1 = g2
    BY DEF OneCall
  <2>1. ASSUME NEW g \in Handles, boss'[g] # NoPlan, phase'[g] \in Busy
        PROVE  boss'[g] = boss[g] /\ phase[g] \in Busy
    <3>1. g # h
      BY <2>1 DEF TypeOK
    <3>2. CASE ~up
      BY <2>1, <3>1, <3>2 DEF TypeOK
    <3>3. CASE up
      BY <1>a, <2>1, <3>1, <3>3 DEF TypeOK, Busy, Active
    <3>. QED BY <3>2, <3>3
  <2>. QED BY <2>1 DEF OneCall
<1>. QED BY <1>1, <1>2, <1>3, <1>4, <1>5

LEMMA StructFailsStep ==
    ASSUME IInv, NEW h \in Handles, StructFails(h)
    PROVE  IInv'
<1>1. /\ kind[h] \in AllKinds /\ at[h] \in 1..Len(InitSteps[kind[h]])
      /\ InitSteps[kind[h]][at[h]] = "self" /\ phase[h] = "init" /\ ~Blocked(h)
  BY AtInitType DEF StructFails, Fails, AtInit, InitStep
<1>2. at[h] = 1
  BY <1>1, InitTable
<1>3. InitOK(h)
  BY DEF IInv
<1>4. Before(kind[h], 1) = {}
  BY DEF Before
<1>5. mem[h] = {} /\ ptr[h] = {} /\ sub[h] = NoPlan
  BY <1>1, <1>2, <1>3, <1>4 DEF InitOK
<1>6. code[h] = "none"
  BY <1>1, <1>2, <1>3, <1>4 DEF InitOK, CodeAt
<1>7. /\ mem' = [mem EXCEPT ![h] = {}] /\ ptr' = [ptr EXCEPT ![h] = {}]
      /\ UNCHANGED <<sub, code>>
  BY <1>5 DEF StructFails, IInv, TypeOK
<1>8. at = [at EXCEPT ![h] = 1] /\ Forget(h)
  BY <1>2 DEF StructFails, IInv, TypeOK
<1>9. CASE boss[h] = NoPlan
  <2>1. phase' = [phase EXCEPT ![h] = "absent"] /\ at' = at
    BY <1>9 DEF StructFails
  <2>. QED BY <1>1, <1>2, <1>5, <1>6, <1>7, <1>8, <1>9, <2>1, LeaveStep DEF Active
<1>10. CASE boss[h] # NoPlan
  <2>1. /\ phase' = [phase EXCEPT ![h] = "absent", ![boss[h]] = "cleanup"]
        /\ at' = [at EXCEPT ![boss[h]] = 1]
    BY <1>10 DEF StructFails
  <2>2. at' = [at EXCEPT ![h] = 1, ![boss[h]] = 1]
    BY <1>8, <2>1
  <2>. QED BY <1>1, <1>2, <1>5, <1>6, <1>7, <1>8, <1>10, <2>1, <2>2, LeaveStep DEF Active
<1>. QED BY <1>9, <1>10

LEMMA ClientFreeStep ==
    ASSUME IInv, NEW h \in Handles, ClientFree(h)
    PROVE  IInv'
<1>. USE DEF IInv, ClientFree
<1>. DEFINE k == kind[h]
<1>0. /\ k \in AllKinds /\ phase[h] = "held" /\ boss[h] = NoPlan
      /\ Len(InitSteps[k]) \in Nat
  BY InitTable DEF TypeOK
<1>a. HeldOK(h)
  OBVIOUS
<1>1. TypeOK'
  BY DEF TypeOK, Phases
<1>2. OnlyUntestedCrash'
  BY <1>0, CrashedStay DEF TypeOK
<1>3. ASSUME NEW x \in Handles
      PROVE  (AbsentOK(x) /\ InitOK(x) /\ HeldOK(x) /\ DestroyOK(x))'
  <2>1. CASE x = h
    <3>1. /\ phase'[h] = "free" /\ kind'[h] = k /\ at'[h] = 1
          /\ mem'[h] = mem[h] /\ ptr'[h] = ptr[h] /\ sub'[h] = sub[h]
          /\ code'[h] = code[h]
      BY <1>0 DEF TypeOK
    <3>2. mem[h] = Before(k, Len(InitSteps[k]) + 1) /\ ptr[h] = mem[h]
      BY <1>0, <1>a DEF HeldOK
    <3>3. ptr[h] \subseteq Remaining(k, 1)
      BY <1>0, <3>2, StoredIsReleased
    <3>4. "self" \in ptr[h]
      <4>1. /\ InitSteps[k][1] = "self" /\ 1 \in 1..Len(InitSteps[k])
            /\ 1 < Len(InitSteps[k]) + 1
        BY <1>0, InitTable
      <4>. QED BY <3>2, <4>1 DEF Before, Blocks
    <3>5. 1 <= Len(DestroySteps[k])
      BY <1>0, DestroyLength
    <3>6. code[h] # "none" => k = "dynamic"
      BY <1>0, <1>a DEF HeldOK
    <3>7. sub[h] # NoPlan => k \in Nesting
      BY <1>0, <1>a DEF HeldOK
    <3>8. mem[h] = ptr[h] \cap Remaining(k, 1)
      BY <3>2, <3>3
    <3>. QED BY <2>1, <3>1, <3>3, <3>4, <3>5, <3>6, <3>7, <3>8 DEF AbsentOK, InitOK, HeldOK, DestroyOK
  <2>2. CASE x # h
    BY <2>2 DEF TypeOK, AbsentOK, InitOK, HeldOK, DestroyOK
  <2>. QED BY <2>1, <2>2
<1>4. ASSUME NEW x \in Handles
      PROVE  (SubOK(x) /\ BossOK(x))'
  BY <1>0, NoPlanAssumption DEF TypeOK, SubOK, BossOK
<1>5. OneCall'
  BY <1>0 DEF TypeOK, OneCall
<1>. QED BY <1>1, <1>2, <1>3, <1>4, <1>5

\* What TypeOK and DestroyOK say of the handle a destroy function works on.
LEMMA AtDestroyType ==
    ASSUME IInv, NEW h \in Handles, AtDestroy(h)
    PROVE  /\ kind[h] \in AllKinds
           /\ at[h] \in 1..Len(DestroySteps[kind[h]])
           /\ DestroyStep(h) = DestroySteps[kind[h]][at[h]]
           /\ DestroyStep(h) \in Steps
           /\ Len(DestroySteps[kind[h]]) \in Nat
           /\ DestroyOK(h)
           /\ phase[h] \in {"cleanup", "free"}
BY DestroyTable DEF IInv, TypeOK, AtDestroy, DestroyStep

LEMMA ReleaseStep ==
    ASSUME IInv, NEW h \in Handles, Release(h)
    PROVE  IInv'
<1>. USE DEF IInv, Release
<1>. DEFINE k == kind[h]
            i == at[h]
            d == DestroyStep(h)
<1>0. /\ k \in AllKinds /\ i \in 1..Len(DestroySteps[k])
      /\ Len(DestroySteps[k]) \in Nat
      /\ d = DestroySteps[k][i] /\ DestroyOK(h)
      /\ phase[h] \in {"cleanup", "free"}
      /\ d \in Blocks /\ d # "self"
  BY AtDestroyType
<1>1. TypeOK'
  BY <1>0 DEF TypeOK, CodeStates
<1>2. OnlyUntestedCrash'
  BY <1>0, CrashedStay DEF TypeOK
<1>3. ASSUME NEW x \in Handles
      PROVE  (AbsentOK(x) /\ InitOK(x) /\ HeldOK(x) /\ DestroyOK(x))'
  <2>1. CASE x = h
    <3>1. /\ phase'[h] = phase[h] /\ kind'[h] = k /\ at'[h] = i + 1
          /\ mem'[h] = mem[h] \ ({d} \cap ptr[h]) /\ ptr'[h] = ptr[h]
          /\ sub'[h] = sub[h]
      BY <1>0 DEF TypeOK
    <3>2. i + 1 <= Len(DestroySteps[k])
      BY <1>0, DestroyTable
    <3>3. mem'[h] = ptr[h] \cap Remaining(k, i + 1)
      <4>1. Remaining(k, i + 1) = Remaining(k, i) \ {d}
        BY <1>0, RemainingNext
      <4>2. mem[h] = ptr[h] \cap Remaining(k, i)
        BY <1>0 DEF DestroyOK
      <4>. QED BY <3>1, <4>1, <4>2
    <3>4. code'[h] = "none"
      <4>1. d = "transform_base" <=> i = 1 /\ k \notin Nesting
        BY <1>0, DestroyTable
      <4>2. code[h] # "none" => k = "dynamic" /\ i = 1
        BY <1>0 DEF DestroyOK
      <4>. QED BY <4>1, <4>2 DEF TypeOK, Nesting
    <3>5. sub[h] # NoPlan => k \in Nesting /\ i + 1 <= 4
      <4>1. k \in Nesting => i # 4
        BY <1>0, DestroyTable DEF Blocks
      <4>2. sub[h] # NoPlan => k \in Nesting /\ i <= 4
        BY <1>0 DEF DestroyOK
      <4>. QED BY <1>0, <4>1, <4>2
    <3>6. "self" \in ptr[h] /\ ptr[h] \subseteq Remaining(k, 1)
      BY <1>0 DEF DestroyOK
    <3>. QED BY <1>0, <2>1, <3>1, <3>2, <3>3, <3>4, <3>5, <3>6 DEF AbsentOK, InitOK, HeldOK, DestroyOK
  <2>2. CASE x # h
    BY <2>2 DEF TypeOK, AbsentOK, InitOK, HeldOK, DestroyOK
  <2>. QED BY <2>1, <2>2
<1>4. ASSUME NEW x \in Handles
      PROVE  (SubOK(x) /\ BossOK(x))'
  BY NoPlanAssumption, <1>0 DEF TypeOK, SubOK, BossOK
<1>5. OneCall'
  BY DEF TypeOK, OneCall
<1>. QED BY <1>1, <1>2, <1>3, <1>4, <1>5

LEMMA ReleaseNestedStep ==
    ASSUME IInv, NEW h \in Handles, ReleaseNested(h)
    PROVE  IInv'
<1>. USE DEF IInv, ReleaseNested
<1>. DEFINE k == kind[h]
            i == at[h]
            s == sub[h]
<1>0. /\ k \in AllKinds /\ i \in 1..Len(DestroySteps[k])
      /\ Len(DestroySteps[k]) \in Nat
      /\ DestroySteps[k][i] = "plan0" /\ DestroyOK(h)
      /\ phase[h] \in {"cleanup", "free"} /\ ~Blocked(h)
  BY AtDestroyType DEF AtDestroy
<1>a. i = 4 /\ k \in Nesting /\ Len(DestroySteps[k]) = 5
  BY <1>0, DestroyTable
<1>b. s # NoPlan => /\ s \in Handles /\ s # h /\ phase[s] = "held" /\ boss[s] = h
                    /\ kind[s] \in AllKinds /\ HeldOK(s)
  BY <1>0 DEF TypeOK, SubOK
<1>c. h # NoPlan
  BY NoPlanAssumption
<1>d. at'[h] = 5 /\ phase'[h] = phase[h]
  <2>1. CASE s = NoPlan
    BY <1>a, <2>1 DEF TypeOK
  <2>2. CASE s # NoPlan
    BY <1>a, <1>b, <2>2 DEF TypeOK
  <2>. QED BY <2>1, <2>2
<1>1. TypeOK'
  <2>1. CASE s = NoPlan
    BY <2>1 DEF TypeOK
  <2>2. CASE s # NoPlan
    <3>1. phase' = [phase EXCEPT ![s] = "free"] /\ at' = [at EXCEPT ![h] = 5, ![s] = 1]
      BY <1>a, <2>2 DEF TypeOK
    <3>2. /\ phase \in [Handles -> Phases] /\ at \in [Handles -> Nat \ {0}]
          /\ 5 \in Nat \ {0} /\ 1 \in Nat \ {0} /\ "free" \in Phases
      BY DEF TypeOK, Phases
    <3>3. phase' \in [Handles -> Phases] /\ at' \in [Handles -> Nat \ {0}]
      <4>. HIDE DEF IInv, ReleaseNested
      <4>. QED BY <3>1, <3>2
    <3>. QED BY <3>3 DEF TypeOK
  <2>. QED BY <2>1, <2>2
<1>2. OnlyUntestedCrash'
  <2>1. CASE s = NoPlan
    BY <1>0, <2>1, CrashedStay DEF TypeOK
  <2>2. CASE s # NoPlan
    <3>1. phase' = [phase EXCEPT ![s] = "free"] /\ at' = [at EXCEPT ![h] = 5, ![s] = 1]
      BY <1>a, <2>2 DEF TypeOK
    <3>2. \A x \in Handles : phase'[x] = "crashed" => phase[x] = "crashed" /\ at'[x] = at[x]
      BY <1>0, <1>b, <2>2, <3>1 DEF TypeOK
    <3>. QED BY <3>2, CrashedStay DEF TypeOK
  <2>. QED BY <2>1, <2>2
<1>3. ASSUME NEW x \in Handles
      PROVE  (AbsentOK(x) /\ InitOK(x) /\ HeldOK(x) /\ DestroyOK(x))'
  <2>1. CASE x = h
    <3>1. /\ kind'[h] = k /\ mem'[h] = mem[h] /\ ptr'[h] = ptr[h]
          /\ sub'[h] = NoPlan /\ code'[h] = code[h]
      BY DEF TypeOK
    <3>2. Remaining(k, 5) = Remaining(k, 4) \ {"plan0"}
      <4>1. Remaining(k, 4 + 1) = Remaining(k, 4) \ {DestroySteps[k][4]}
        BY <1>0, <1>a, RemainingNext
      <4>2. 4 + 1 = 5
        OBVIOUS
      <4>. QED BY <1>0, <1>a, <4>1, <4>2
    <3>3. "plan0" \notin Blocks
      BY DEF Blocks
    <3>4. /\ mem[h] = ptr[h] \cap Remaining(k, 4) /\ "self" \in ptr[h]
          /\ ptr[h] \subseteq Remaining(k, 1) /\ ptr[h] \subseteq Blocks
          /\ code[h] = "none"
      BY <1>0, <1>a DEF DestroyOK, TypeOK
    <3>5. mem[h] = ptr[h] \cap Remaining(k, 5)
      BY <3>2, <3>3, <3>4
    <3>6. DestroyOK(h)'
      <4>1. 5 <= Len(DestroySteps[k])
        BY <1>a
      <4>. QED BY <1>d, <3>1, <3>4, <3>5, <4>1 DEF DestroyOK
    <3>. QED BY <1>0, <1>d, <2>1, <3>6 DEF AbsentOK, InitOK, HeldOK
  <2>2. CASE x # h /\ s # NoPlan /\ x = s
    <3>1. /\ phase'[s] = "free" /\ at'[s] = 1 /\ kind'[s] = kind[s]
          /\ mem'[s] = mem[s] /\ ptr'[s] = ptr[s] /\ sub'[s] = sub[s]
          /\ code'[s] = code[s]
      BY <1>b, <2>2 DEF TypeOK
    <3>2. /\ mem[s] = Before(kind[s], Len(InitSteps[kind[s]]) + 1) /\ ptr[s] = mem[s]
          /\ code[s] # "none" => kind[s] = "dynamic"
          /\ sub[s] # NoPlan => kind[s] \in Nesting
      BY <1>b, <2>2 DEF HeldOK
    <3>3. Len(InitSteps[kind[s]]) \in Nat
      BY <1>b, <2>2, InitTable
    <3>4. ptr[s] \subseteq Remaining(kind[s], 1)
      BY <1>b, <2>2, <3>2, <3>3, StoredIsReleased
    <3>5. "self" \in ptr[s]
      <4>1. /\ InitSteps[kind[s]][1] = "self" /\ 1 \in 1..Len(InitSteps[kind[s]])
            /\ 1 < Len(InitSteps[kind[s]]) + 1
        BY <1>b, <2>2, InitTable
      <4>. QED BY <3>2, <4>1 DEF Before, Blocks
    <3>6. 1 <= Len(DestroySteps[kind[s]])
      BY <1>b, <2>2, DestroyTable
    <3>7. mem[s] = ptr[s] \cap Remaining(kind[s], 1)
      BY <3>2, <3>4
    <3>. QED BY <2>2, <3>1, <3>2, <3>4, <3>5, <3>6, <3>7 DEF AbsentOK, InitOK, HeldOK, DestroyOK
  <2>3. CASE x # h /\ ~(s # NoPlan /\ x = s)
    <3>1. /\ phase'[x] = phase[x] /\ kind'[x] = kind[x] /\ at'[x] = at[x]
          /\ mem'[x] = mem[x] /\ ptr'[x] = ptr[x] /\ sub'[x] = sub[x]
          /\ code'[x] = code[x] /\ boss'[x] = boss[x] /\ full'[x] = full[x]
      BY <1>b, <2>3 DEF TypeOK
    <3>. QED BY <3>1 DEF AbsentOK, InitOK, HeldOK, DestroyOK
  <2>. QED BY <2>1, <2>2, <2>3
<1>4. ASSUME NEW x \in Handles
      PROVE  (SubOK(x) /\ BossOK(x))'
  <2>1. SubOK(x) /\ BossOK(x)
    OBVIOUS
  <2>2. x # h => sub'[x] = sub[x] /\ (s # NoPlan => sub[x] # s)
    BY <1>b, <2>1 DEF TypeOK, SubOK
  <2>3. SubOK(x)'
    <3>1. CASE x = h
      BY <3>1 DEF TypeOK, SubOK
    <3>2. CASE x # h
      <4>1. sub[x] # NoPlan => sub[x] \in Handles /\ phase'[sub[x]] = phase[sub[x]]
        BY <2>2, <3>2 DEF TypeOK
      <4>. QED BY <2>1, <2>2, <3>2, <4>1 DEF SubOK
    <3>. QED BY <3>1, <3>2
  <2>4. BossOK(x)'
    <3>1. CASE s # NoPlan /\ x = s
      <4>1. phase'[s] = "free" /\ boss'[s] = h
        BY <1>b, <3>1 DEF TypeOK
      <4>. QED BY <1>0, <1>d, <3>1, <4>1 DEF BossOK
    <3>2. CASE ~(s # NoPlan /\ x = s)
      <4>1. phase'[x] = phase[x] /\ boss'[x] = boss[x] /\ boss[x] \in Handles \cup {NoPlan}
        BY <3>2 DEF TypeOK
      <4>2. phase[x] = "held" => boss[x] # h
        BY <1>c, <2>1, <3>2, NoPlanAssumption DEF BossOK
      <4>3. phase[x] \in Busy => boss[x] # h
        BY <1>0 DEF Blocked, Busy
      <4>4. boss[x] # NoPlan /\ boss[x] # h =>
               /\ sub'[boss[x]] = sub[boss[x]]
               /\ (phase[x] \in Busy => /\ phase'[boss[x]] = phase[boss[x]]
                                          /\ at'[boss[x]] = at[boss[x]])
        <5>1. phase[x] \in Busy /\ boss[x] # NoPlan => phase[boss[x]] # "held"
          BY <2>1 DEF BossOK, Busy, Active
        <5>. QED BY <1>b, <4>1, <5>1 DEF TypeOK
      <4>. QED BY <2>1, <4>1, <4>2, <4>3, <4>4 DEF BossOK, Busy, Active
    <3>. QED BY <3>1, <3>2
  <2>. QED BY <2>3, <2>4
<1>5. OneCall'
  <2>. SUFFICES ASSUME NEW g1 \in Handles, NEW g2 \in Handles,
                       boss'[g1] # NoPlan, boss'[g1] = boss'[g2],
                       phase'[g1] \in Busy, phase'[g2] \in Busy
                PROVE  g1 = g2
    BY DEF OneCall
  <2>1. ASSUME NEW g \in Handles, phase'[g] \in Busy
        PROVE  phase[g] \in Busy \/ (s # NoPlan /\ g = s)
    BY <2>1 DEF TypeOK
  <2>2. ASSUME NEW g \in Handles, phase[g] \in Busy
        PROVE  boss[g] # h
    BY <1>0, <2>2 DEF Blocked, Busy
  <2>. QED BY <1>b, <2>1, <2>2 DEF OneCall
<1>. QED BY <1>1, <1>2, <1>3, <1>4, <1>5

LEMMA ReleaseStructStep ==
    ASSUME IInv, NEW h \in Handles, ReleaseStruct(h)
    PROVE  IInv'
<1>. DEFINE k == kind[h]
            n == Len(DestroySteps[k])
<1>0. /\ k \in AllKinds /\ at[h] \in 1..n /\ n \in Nat
      /\ DestroySteps[k][at[h]] = "self" /\ DestroyOK(h)
      /\ phase[h] \in {"cleanup", "free"} /\ ~Blocked(h)
  BY AtDestroyType DEF AtDestroy, ReleaseStruct
<1>1. at[h] = n
  BY <1>0, DestroyTable
<1>2. Remaining(k, n) \subseteq {"self"}
  BY <1>0, DestroyTable DEF Remaining
<1>3. mem[h] \subseteq {"self"}
  BY <1>0, <1>1, <1>2 DEF DestroyOK
<1>4. mem' = [mem EXCEPT ![h] = {}] /\ ptr' = [ptr EXCEPT ![h] = {}]
  BY <1>3 DEF ReleaseStruct, IInv, TypeOK
<1>5. k \in Nesting => n = 5
  BY <1>0, DestroyTable
<1>6. sub[h] = NoPlan
  <2>1. sub[h] # NoPlan => k \in Nesting /\ at[h] <= 4
    BY <1>0 DEF DestroyOK
  <2>. QED BY <1>1, <1>5, <2>1
<1>7. code[h] = "none"
  <2>1. k = "dynamic" => n > 1
    BY DEF DestroySteps
  <2>2. code[h] # "none" => k = "dynamic" /\ at[h] = 1
    BY <1>0 DEF DestroyOK
  <2>3. ~(k = "dynamic" /\ at[h] = 1)
    <3>. HIDE DEF n
    <3>. QED BY <1>0, <1>1, <2>1
  <2>. QED BY <2>2, <2>3
<1>8. UNCHANGED <<sub, code>> /\ Forget(h)
  BY DEF ReleaseStruct
<1>9. CASE phase[h] = "cleanup" /\ boss[h] # NoPlan
  <2>1. /\ phase' = [phase EXCEPT ![h] = "absent", ![boss[h]] = "cleanup"]
        /\ at' = [at EXCEPT ![h] = 1, ![boss[h]] = 1]
    BY <1>9 DEF ReleaseStruct
  <2>2. at'[h] = 1
    BY <2>1 DEF IInv, TypeOK
  <2>. QED BY <1>0, <1>4, <1>6, <1>7, <1>8, <1>9, <2>1, <2>2, LeaveStep DEF Active
<1>10. CASE ~(phase[h] = "cleanup" /\ boss[h] # NoPlan)
  <2>1. /\ phase' = [phase EXCEPT ![h] = "absent"]
        /\ at' = [at EXCEPT ![h] = 1]
    BY <1>10 DEF ReleaseStruct
  <2>2. at'[h] = 1
    BY <2>1 DEF IInv, TypeOK
  <2>3. ~(phase[h] \in {"init", "cleanup"} /\ boss[h] # NoPlan)
    BY <1>0, <1>10
  <2>. QED BY <1>0, <1>4, <1>6, <1>7, <1>8, <2>1, <2>2, <2>3, LeaveStep DEF Active
<1>. QED BY <1>9, <1>10

-----------------------------------------------------------------------------
(* The theorems.                                                           *)

LEMMA WorkStep ==
    ASSUME IInv, NEW h \in Handles, Work(h)
    PROVE  IInv'
<1>1. ASSUME NEW g \in Handles, NEW k \in Kinds, NestedInit(h, g, k)
      PROVE  IInv'
  <2>1. /\ kind[h] \in AllKinds /\ at[h] \in 1..Len(InitSteps[kind[h]])
        /\ InitSteps[kind[h]][at[h]] = "plan0" /\ phase[h] = "init" /\ ~Blocked(h)
    BY <1>1, AtInitType DEF NestedInit, AtInit, InitStep
  <2>2. at[h] = 2 /\ kind[h] \in Nesting
    BY <2>1, InitTable
  <2>3. Enter(g, k, h)
    BY <1>1 DEF NestedInit
  <2>. QED BY <2>1, <2>2, <2>3, EnterStep
<1>2. ASSUME NestedRefused(h) \/ StepFails(h)
      PROVE  IInv'
  <2>1. AtInit(h) /\ InitStep(h) # "self" /\ ToCleanup(h)
        /\ UNCHANGED <<kind, ptr, mem, full, sub, boss, code>>
    BY <1>2 DEF NestedRefused, StepFails, Fails
  <2>2. /\ kind[h] \in AllKinds /\ at[h] \in 1..Len(InitSteps[kind[h]])
        /\ InitSteps[kind[h]][at[h]] # "self"
    BY <2>1, AtInitType DEF InitStep
  <2>3. at[h] > 1
    BY <2>2, InitTable
  <2>. QED BY <2>1, <2>3, CleanupStep
<1>3. ASSUME Crash(h)
      PROVE  IInv'
  BY <1>3, CrashStep DEF Crash
<1>4. ASSUME StepFailsUnnoticed(h)
      PROVE  IInv'
  <2>1. CASE InitStep(h) = "luts"
    <3>1. AtInit(h) /\ InitStep(h) \in Calls /\ Untested(h, InitStep(h))
      BY <1>4, <2>1 DEF StepFailsUnnoticed, Fails, Untested, Calls
    <3>2. /\ phase' = [phase EXCEPT ![h] = "crashed"]
          /\ UNCHANGED <<kind, at, ptr, mem, full, sub, boss, code>>
      BY <1>4, <2>1 DEF StepFailsUnnoticed
    <3>. QED BY <3>1, <3>2, CrashStep
  <2>2. CASE InitStep(h) # "luts"
    BY <1>4, <2>2, UnnoticedStep
  <2>. QED BY <2>1, <2>2
<1>. QED
  BY <1>1, <1>2, <1>3, <1>4, FinishStep, AllocateStep, CallStep, StructFailsStep,
     ReleaseStep, ReleaseNestedStep, ReleaseStructStep DEF Work

LEMMA NextStep ==
    ASSUME IInv, [Next]_vars
    PROVE  IInv'
<1>1. CASE Next
  <2>1. ASSUME NEW h \in Handles, NEW k \in Kinds, ClientInit(h, k)
        PROVE  IInv'
    BY <2>1, EnterStep DEF ClientInit
  <2>. QED BY <1>1, <2>1, ClientFreeStep, WorkStep DEF Next
<1>2. CASE UNCHANGED vars
  BY <1>2 DEF vars, IInv, TypeOK, OnlyUntestedCrash, AbsentOK, InitOK, HeldOK, DestroyOK,
              SubOK, BossOK, OneCall, InitStep, Untested
<1>. QED BY <1>1, <1>2

\* IInv holds throughout, whichever failures happen and however calls follow one
\* another.
THEOREM Inductive == Spec => []IInv
<1>1. IInv /\ [Next]_vars => IInv'
  BY NextStep
<1>. QED BY <1>1, InitIInv, PTL DEF Spec

\* The variables keep their types in every state of PlanLife.
THEOREM TypeCorrect == Spec => []TypeOK
<1>1. IInv => TypeOK
  BY DEF IInv
<1>. QED BY <1>1, Inductive, PTL

\* Whichever failures happen, an init uses memory it did not get only where an
\* allocation that it does not test failed right there: every goto cleanup of
\* ffts.c, ffts_chirp_z.c and ffts_real.c comes before the block is needed.
THEOREM CrashOnlyUntested == Spec => []OnlyUntestedCrash
<1>1. IInv => OnlyUntestedCrash
  BY DEF IInv
<1>. QED BY <1>1, Inductive, PTL

\* If only failures happen that the code tests for, no init crashes at all.
THEOREM BadAccessNever ==
    FailuresTested => (Spec => [](\A h \in Handles : phase[h] # "crashed"))
<1>. SUFFICES ASSUME FailuresTested
              PROVE  Spec => [](\A h \in Handles : phase[h] # "crashed")
  OBVIOUS
<1>1. OnlyUntestedCrash => \A h \in Handles : phase[h] # "crashed"
  BY DEF OnlyUntestedCrash, Untested, FailuresTested
<1>. QED BY <1>1, CrashOnlyUntested, PTL

\* The destroy functions release no block twice, from whatever step of whatever
\* init they are entered and whatever failed before.
THEOREM DoubleFreeNever == Spec => []NoDoubleFree
<1>1. IInv => NoDoubleFree
  <2>. SUFFICES ASSUME IInv, NEW h \in Handles, AtDestroy(h), DestroyStep(h) \in ptr[h]
                PROVE  DestroyStep(h) \in mem[h]
    BY DEF NoDoubleFree
  <2>1. /\ at[h] \in 1..Len(DestroySteps[kind[h]])
        /\ DestroyStep(h) = DestroySteps[kind[h]][at[h]]
        /\ Len(DestroySteps[kind[h]]) \in Nat
        /\ phase[h] \in {"cleanup", "free"} /\ DestroyOK(h)
    BY AtDestroyType
  <2>2. DestroyStep(h) \in Blocks
    BY DEF IInv, TypeOK
  <2>3. DestroyStep(h) \in Remaining(kind[h], at[h])
    BY <2>1, <2>2 DEF Remaining
  <2>. QED BY <2>1, <2>3 DEF DestroyOK
<1>. QED BY <1>1, Inductive, PTL

\* A plan that a client holds can be executed if nothing failed but what the code
\* tests for: its blocks are there and filled, its nested plan is held, its code
\* is executable and flushed.  (A failed chirp leaves a plan whose A and B are not
\* filled, so the premise cannot go.)
THEOREM AlwaysUsable == FailuresTested => (Spec => []Usable)
<1>. SUFFICES ASSUME FailuresTested PROVE Spec => []Usable
  OBVIOUS
<1>1. IInv => Usable
  <2>. SUFFICES ASSUME IInv, NEW h \in Handles, phase[h] = "held"
                PROVE  /\ TransformUses[kind[h]] \subseteq mem[h]
                       /\ TransformUses[kind[h]] \ {"buf"} \subseteq full[h]
                       /\ kind[h] \in {"chirp_z", "real"} =>
                              sub[h] # NoPlan /\ phase[sub[h]] = "held"
                       /\ kind[h] = "dynamic" => code[h] = "flushed"
    BY DEF Usable
  <2>1. HeldOK(h) /\ SubOK(h) /\ kind[h] \in AllKinds
    BY DEF IInv, TypeOK
  <2>2. Unfilled(kind[h]) = {}
    BY DEF FailuresTested, Unfilled
  <2>. QED BY <2>1, <2>2, TransformBefore, TransformFilled DEF HeldOK, SubOK, Nesting
<1>. QED BY <1>1, Inductive, PTL

\* A nested plan always belongs to one plan that is alive.
THEOREM NestedAlwaysOwned == Spec => []NestedOwned
<1>1. IInv => NestedOwned
  <2>. SUFFICES ASSUME IInv, NEW g \in Handles, phase[g] = "held", boss[g] # NoPlan
                PROVE  /\ phase[boss[g]] # "absent"
                       /\ sub[boss[g]] = g
    BY DEF NestedOwned
  <2>1. /\ BossOK(g) /\ boss[g] \in Handles /\ g # NoPlan
        /\ AbsentOK(boss[g])
    BY NoPlanAssumption DEF IInv, TypeOK
  <2>2. sub[boss[g]] = g
    BY <2>1 DEF BossOK
  <2>3. phase[boss[g]] # "absent"
    BY <2>1, <2>2 DEF AbsentOK
  <2>. QED BY <2>2, <2>3
<1>. QED BY <1>1, Inductive, PTL

-----------------------------------------------------------------------------
(* PlanLife implements PlanApi.                                            *)

\* What the abstraction shows of one plan.
LEMMA BarValue ==
    ASSUME IInv, NEW h \in Handles
    PROVE  /\ ownedBar[h] = IF phase[h] = "held" THEN mem[h] ELSE {}
           /\ h \in heldBar <=> phase[h] = "held"
BY DEF ownedBar, heldBar, IInv, AbsentOK

\* A step that makes no plan held, frees none and leaves the memory of the held
\* ones alone is invisible to the client.
LEMMA Invisible ==
    ASSUME IInv, IInv',
           \A x \in Handles : /\ phase'[x] = "held" <=> phase[x] = "held"
                              /\ phase[x] = "held" => mem'[x] = mem[x]
    PROVE  heldBar' = heldBar /\ ownedBar' = ownedBar
<1>1. heldBar' = heldBar
  BY DEF heldBar
<1>2. ASSUME NEW x \in Handles
      PROVE  ownedBar'[x] = ownedBar[x]
  <2>1. AbsentOK(x) /\ AbsentOK(x)'
    BY DEF IInv
  <2>. QED BY <2>1 DEF ownedBar, AbsentOK
<1>3. ownedBar' = ownedBar
  BY <1>2 DEF ownedBar
<1>. QED BY <1>1, <1>3

\* One plan becomes held.
LEMMA Created ==
    ASSUME IInv, IInv', NEW h \in Handles, phase[h] # "held", phase'[h] = "held",
           \A x \in Handles \ {h} : /\ phase'[x] = "held" <=> phase[x] = "held"
                                    /\ phase[x] = "held" => mem'[x] = mem[x]
    PROVE  Api!Create(h)
<1>1. mem'[h] \in (SUBSET Blocks) \ {{}}
  <2>1. kind'[h] \in AllKinds /\ HeldOK(h)' /\ mem'[h] \subseteq Blocks
    BY DEF IInv, TypeOK
  <2>2. /\ InitSteps[kind'[h]][1] = "self" /\ 1 \in 1..Len(InitSteps[kind'[h]])
        /\ 1 < Len(InitSteps[kind'[h]]) + 1
    BY <2>1, InitTable
  <2>3. "self" \in Before(kind'[h], Len(InitSteps[kind'[h]]) + 1)
    BY <2>2 DEF Before, Blocks
  <2>4. "self" \in mem'[h]
    BY <2>1, <2>3 DEF HeldOK
  <2>5. mem'[h] \in SUBSET Blocks
    BY <2>1
  <2>6. mem'[h] \notin {{}}
    BY <2>4
  <2>. QED BY <2>5, <2>6
<1>2. h \notin heldBar /\ heldBar' = heldBar \cup {h}
  BY DEF heldBar
<1>3. ownedBar' = [ownedBar EXCEPT ![h] = mem'[h]]
  <2>1. ASSUME NEW x \in Handles
        PROVE  ownedBar'[x] = IF x = h THEN mem'[h] ELSE ownedBar[x]
    <3>1. AbsentOK(x) /\ AbsentOK(x)'
      BY DEF IInv
    <3>. QED BY <3>1 DEF ownedBar, AbsentOK
  <2>. QED BY <2>1 DEF ownedBar
<1>. QED BY <1>1, <1>2, <1>3 DEF Api!Create

\* One plan is given back.
LEMMA Destroyed ==
    ASSUME IInv, IInv', NEW h \in Handles, phase[h] = "held", phase'[h] # "held",
           \A x \in Handles \ {h} : /\ phase'[x] = "held" <=> phase[x] = "held"
                                    /\ phase[x] = "held" => mem'[x] = mem[x]
    PROVE  Api!Destroy(h)
<1>1. h \in heldBar /\ heldBar' = heldBar \ {h}
  BY DEF heldBar
<1>2. ownedBar' = [ownedBar EXCEPT ![h] = {}]
  <2>1. ASSUME NEW x \in Handles
        PROVE  ownedBar'[x] = IF x = h THEN {} ELSE ownedBar[x]
    <3>1. AbsentOK(x) /\ AbsentOK(x)'
      BY DEF IInv
    <3>. QED BY <3>1 DEF ownedBar, AbsentOK
  <2>. QED BY <2>1 DEF ownedBar
<1>. QED BY <1>1, <1>2 DEF Api!Destroy

LEMMA StepImplements ==
    ASSUME IInv, IInv', [Next]_vars
    PROVE  [Api!Next]_(Api!vars)
<1>. DEFINE Same(x) == /\ phase'[x] = "held" <=> phase[x] = "held"
                       /\ phase[x] = "held" => mem'[x] = mem[x]
            Quiet == \A x \in Handles : Same(x)
            Others(h) == \A x \in Handles \ {h} : Same(x)
<1>0. Quiet => [Api!Next]_(Api!vars)
  BY Invisible DEF Api!vars
<1>. USE DEF IInv, TypeOK
<1>1. ASSUME NEW h \in Handles, NEW k \in Kinds, NEW b, Enter(h, k, b)
      PROVE  Quiet
  BY <1>1 DEF Enter
<1>2. ASSUME NEW h \in Handles, ClientFree(h)
      PROVE  Api!Next
  <2>1. phase[h] = "held" /\ phase'[h] # "held" /\ Others(h)
    BY <1>2 DEF ClientFree
  <2>. QED BY <2>1, Destroyed DEF Api!Next
<1>3. ASSUME NEW h \in Handles, Finish(h)
      PROVE  Api!Next
  <2>1. phase[h] # "held" /\ phase'[h] = "held" /\ Others(h)
    BY <1>3 DEF Finish
  <2>. QED BY <2>1, Created DEF Api!Next
<1>4. ASSUME NEW h \in Handles, Allocate(h) \/ Call(h) \/ NestedRefused(h) \/ StepFails(h)
      PROVE  Quiet
  BY <1>4 DEF Allocate, Call, NestedRefused, StepFails, Fails, AtInit, ToCleanup
<1>5. ASSUME NEW h \in Handles, Release(h)
      PROVE  Quiet
  BY <1>5 DEF Release, AtDestroy
<1>6. ASSUME NEW h \in Handles, StructFails(h)
      PROVE  Quiet
  <2>1. phase[h] = "init" /\ (boss[h] # NoPlan => phase[boss[h]] = "init")
    BY <1>6 DEF StructFails, Fails, AtInit, BossOK
  <2>. QED BY <1>6, <2>1 DEF StructFails
<1>7. ASSUME NEW h \in Handles, ReleaseStruct(h)
      PROVE  Quiet
  <2>1. phase[h] \in {"cleanup", "free"}
        /\ (phase[h] = "cleanup" /\ boss[h] # NoPlan => phase[boss[h]] = "init")
    BY <1>7 DEF ReleaseStruct, AtDestroy, BossOK
  <2>. QED BY <1>7, <2>1 DEF ReleaseStruct
<1>8. ASSUME NEW h \in Handles, ReleaseNested(h)
      PROVE  Quiet \/ Api!Next
  <2>1. CASE sub[h] = NoPlan
    BY <1>8, <2>1 DEF ReleaseNested
  <2>2. CASE sub[h] # NoPlan
    <3>1. sub[h] \in Handles /\ phase[sub[h]] = "held"
      BY <2>2 DEF SubOK
    <3>2. phase'[sub[h]] # "held" /\ Others(sub[h])
      BY <1>8, <2>2, <3>1 DEF ReleaseNested
    <3>. QED BY <3>1, <3>2, Destroyed DEF Api!Next
  <2>. QED BY <2>1, <2>2
<1>9. ASSUME UNCHANGED vars
      PROVE  Quiet
  BY <1>9 DEF vars
<1>10. ASSUME NEW h \in Handles, StepFailsUnnoticed(h) \/ Crash(h)
       PROVE  Quiet
  BY <1>10 DEF StepFailsUnnoticed, Crash, Fails, AtInit
<1>11. ASSUME NEW h \in Handles, Work(h)
       PROVE  Quiet \/ Api!Next
  <2>. HIDE DEF Quiet
  <2>1. ASSUME NEW g \in Handles, NEW k \in Kinds, NestedInit(h, g, k)
        PROVE  Quiet
    BY <2>1, <1>1 DEF NestedInit
  <2>. QED BY <1>11, <2>1, <1>3, <1>4, <1>5, <1>6, <1>7, <1>8, <1>10 DEF Work
<1>12. ASSUME Next
       PROVE  Quiet \/ Api!Next
  <2>. HIDE DEF Quiet
  <2>1. ASSUME NEW h \in Handles, NEW k \in Kinds, ClientInit(h, k)
        PROVE  Quiet
    BY <2>1, <1>1 DEF ClientInit
  <2>. QED BY <1>12, <2>1, <1>2, <1>11 DEF Next
<1>. QED BY <1>0, <1>9, <1>12

\* Every init is all or nothing, a held plan's memory is left alone, and every
\* free gives back all of it, whichever failures happen: PlanLife implements
\* PlanApi.
THEOREM Implementation == Spec => ApiImplemented
<1>1. Init => Api!Init
  BY DEF Init, Api!Init, heldBar, ownedBar
<1>2. IInv /\ IInv' /\ [Next]_vars => [Api!Next]_(Api!vars)
  BY StepImplements
<1>. QED BY <1>1, <1>2, Inductive, PTL DEF Spec, ApiImplemented, Api!Spec
==============================================================================
