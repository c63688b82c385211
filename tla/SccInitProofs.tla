--------------------------- MODULE SccInitProofs ---------------------------
(***************************************************************************)
(* Proofs about SccInit, for any number of threads and any sccs without a  *)
(* cycle of dependencies.                                                  *)
(***************************************************************************)
EXTENDS SccInit, TLAPS

Visiting(t) == pc[t] \in {"visit", "ctor", "reenter", "done"}
Runs(t)     == Visiting(t) \/ pc[t] = "clear"
Holds(t)    == Runs(t) \/ pc[t] \in {"mark", "unlock"}

Running(s)     == visit_status[s] = "running"
Initialized(s) == visit_status[s] = "initialized"

(* Who holds the mutex, who is the runner, who makes the empty string.     *)
LockInv ==
    \A t \in Threads :
       /\ mu = t <=> Holds(t)
       /\ runner = t <=> Runs(t)
       /\ pc[t] = "make_empty" =>
             /\ empty_string = "making"
             /\ \A u \in Threads : pc[u] = "make_empty" => u = t
       /\ Holds(t) \/ pc[t] = "lock" => empty_string = "made"
       /\ pc[t] # "idle" => asked[t] \in Sccs
       /\ pc[t] \notin {"aborted", "stuck"}

(* What is being visited: the runner visits an scc of the lowest rank, each *)
(* scc was visited for one of a higher rank, with none between them.        *)
StackInv ==
    /\ \A t \in Threads : Visiting(t) => cur \in Sccs /\ Running(cur)
    /\ \A s \in Sccs : Running(s) =>
          /\ \E t \in Threads : Visiting(t)
          /\ s = cur \/ Rank[cur] < Rank[s]
          /\ caller[s] \in Sccs =>
                Running(caller[s]) /\ Rank[s] < Rank[caller[s]]
          /\ \A r \in Sccs : Running(r) /\ Rank[s] < Rank[r] =>
                /\ caller[s] \in Sccs
                /\ caller[s] = r \/ Rank[caller[s]] < Rank[r]

(* The dependencies of an scc have been seen to, all of them once it is     *)
(* made; the instances are made between the visit and its end.              *)
MadeInv ==
    /\ \A s \in Sccs :
          /\ todo[s] \subseteq Deps[s]
          /\ visit_status[s] = "uninitialized" => made[s] = 0 /\ todo[s] = Deps[s]
          /\ Initialized(s) => /\ made[s] = 1
                               /\ \A d \in Deps[s] : Initialized(d)
          /\ Running(s) => /\ s # cur => made[s] = 0
                           /\ \A d \in Deps[s] : d \notin todo[s] =>
                                 visit_status[d] # "uninitialized"
    /\ \A t \in Threads :
          /\ pc[t] = "visit" => made[cur] = 0
          /\ pc[t] \in {"ctor", "reenter", "done"} => /\ made[cur] = 1
                                                      /\ todo[cur] = {}
    /\ (\E s \in Sccs : made[s] # 0) => empty_string = "made"

Closed(S) == \A s \in S : Deps[s] \subseteq S

(* What the threads, the statuses and the mutex carry is closed under       *)
(* dependency; the mutex carries all that is initialized.                   *)
KnowInv ==
    /\ Closed(unlocked)
    /\ \A s \in Sccs : Closed(published[s])
    /\ \A s \in Sccs : Initialized(s) => s \in published[s]
    /\ mu = NoThread => \A s \in Sccs : Initialized(s) => s \in unlocked
    /\ \A t \in Threads :
          /\ Closed(know[t])
          /\ Holds(t) => \A s \in Sccs : Initialized(s) => s \in know[t]
          /\ pc[t] \in {"ctor", "reenter", "done"} => cur \in know[t]
          /\ Visiting(t) => visit_status[asked[t]] # "uninitialized"
          /\ pc[t] \in {"clear", "unlock"} => Initialized(asked[t])
          /\ pc[t] = "idle" => asked[t] = NoScc \/ asked[t] \in know[t]

SccInv == TypeOK /\ LockInv /\ StackInv /\ MadeInv /\ KnowInv

-----------------------------------------------------------------------------
LEMMA InitSccInv == Init => SccInv
<1> SUFFICES ASSUME Init PROVE SccInv
  OBVIOUS
<1>1. TypeOK
  BY SccAssumption DEF Init, TypeOK, Places
<1>2. LockInv
  BY SccAssumption DEF Init, LockInv, Holds, Runs, Visiting
<1>3. StackInv
  BY DEF Init, StackInv, Visiting, Running
<1>4. MadeInv
  BY DEF Init, MadeInv, Initialized, Running
<1>5. KnowInv
  BY DEF Init, KnowInv, Closed, Initialized, Holds, Runs, Visiting
<1>6. QED  BY <1>1, <1>2, <1>3, <1>4, <1>5 DEF SccInv

(* The thread that visits has the mutex to itself.                         *)
LEMMA Visitor ==
    ASSUME SccInv, NEW t \in Threads, Visiting(t)
    PROVE  /\ cur \in Sccs /\ visit_status[cur] = "running"
           /\ runner = t /\ mu = t
           /\ \A u \in Threads : Holds(u) => u = t
BY DEF SccInv, LockInv, StackInv, Holds, Runs, Running

LEMMA TodoIsDeps ==
    ASSUME SccInv, NEW s \in Sccs, NEW d \in todo[s]
    PROVE  d \in Deps[s] /\ d \in Sccs
BY SccAssumption DEF SccInv, TypeOK, MadeInv

(* While the mutex is held and nobody visits, nothing is being visited.    *)
LEMMA NoneRunning ==
    ASSUME SccInv, NEW t \in Threads, Holds(t), ~Visiting(t)
    PROVE  \A s \in Sccs : visit_status[s] # "running"
BY DEF SccInv, LockInv, StackInv, Holds, Runs, Running

(* When all dependencies of the scc that is visited have been looked at,   *)
(* they are initialized: none is being visited, since its rank is lower.   *)
LEMMA DepsReady ==
    ASSUME SccInv, NEW t \in Threads, Visiting(t), todo[cur] = {}
    PROVE  \A d \in Deps[cur] : d \in Sccs /\ Initialized(d)
<1> USE SccAssumption DEF SccInv
<1> SUFFICES ASSUME NEW d \in Deps[cur] PROVE d \in Sccs /\ Initialized(d)
  OBVIOUS
<1>1. cur \in Sccs /\ Running(cur)
  BY Visitor DEF Running
<1>2. d \in Sccs /\ Rank[d] < Rank[cur] /\ Rank[d] \in Nat /\ Rank[cur] \in Nat
  BY <1>1
<1>3. visit_status[d] # "uninitialized"
  BY <1>1 DEF MadeInv
<1>4. ~Running(d)
  BY <1>2 DEF StackInv
<1>5. QED  BY <1>2, <1>3, <1>4 DEF TypeOK, Initialized, Running

LEMMA TypeStep ==
    ASSUME SccInv, NEW t \in Threads, Call(t) \/ Step(t)
    PROVE  TypeOK'
<1> USE SccAssumption DEF At, Goto, Learn, shared, stack, memory, SccInv
<1>1. CASE Call(t)
  BY <1>1 DEF Call, Acquired, TypeOK, Places, Visiting
<1>2. CASE Impl(t)
  BY <1>2 DEF Impl, TypeOK, Places, Visiting
<1>3. CASE Defaults(t)
  BY <1>3 DEF Defaults, TypeOK, Places, Visiting
<1>4. CASE MakeEmpty(t)
  BY <1>4 DEF MakeEmpty, TypeOK, Places, Visiting
<1>5. CASE Lock(t)
  BY <1>5 DEF Lock, TypeOK, Places, Visiting
<1>6. CASE Mark(t)
  BY <1>6 DEF Mark, Visit, TypeOK, Places, Visiting
<1>7. CASE LookAtDep(t)
  BY Visitor, <1>7 DEF LookAtDep, Visit, Unvisited, TypeOK, Places, Visiting
<1>8. CASE Make(t)
  BY Visitor, <1>8 DEF Make, TypeOK, Places, Visiting
<1>9. CASE Ctor(t)
  BY Visitor, <1>9 DEF Ctor, TypeOK, Places, Visiting
<1>10. CASE Reenter(t)
  BY Visitor, <1>10 DEF Reenter, TypeOK, Places, Visiting
<1>11. CASE Done(t)
  BY Visitor, <1>11 DEF Done, TypeOK, Places, Visiting
<1>12. CASE Clear(t)
  BY <1>12 DEF Clear, Cleared, TypeOK, Places, Visiting
<1>13. CASE Unlock(t)
  BY <1>13 DEF Unlock, TypeOK, Places, Visiting
<1>14. QED  BY <1>1, <1>2, <1>3, <1>4, <1>5, <1>6, <1>7, <1>8, <1>9, <1>10,
   <1>11, <1>12, <1>13 DEF Step

LEMMA LockStep ==
    ASSUME SccInv, NEW t \in Threads, Call(t) \/ Step(t)
    PROVE  LockInv'
<1> USE SccAssumption DEF At, Goto, Learn, shared, stack, memory, SccInv
<1>1. CASE Call(t)
  BY <1>1 DEF Call, Acquired, TypeOK, Places, LockInv, Holds, Runs, Visiting
<1>2. CASE Impl(t)
  BY <1>2 DEF Impl, TypeOK, Places, LockInv, Holds, Runs, Visiting
<1>3. CASE Defaults(t)
  BY <1>3 DEF Defaults, TypeOK, Places, LockInv, Holds, Runs, Visiting
<1>4. CASE MakeEmpty(t)
  BY <1>4 DEF MakeEmpty, TypeOK, Places, LockInv, Holds, Runs, Visiting
<1>5. CASE Lock(t)
  BY <1>5 DEF Lock, TypeOK, Places, LockInv, Holds, Runs, Visiting
<1>6. CASE Mark(t)
  BY <1>6 DEF Mark, Visit, TypeOK, Places, LockInv, Holds, Runs, Visiting
<1>7. CASE LookAtDep(t)
  BY Visitor, <1>7 DEF LookAtDep, Visit, Unvisited, TypeOK, Places, LockInv,
     Holds, Runs, Visiting
<1>8. CASE Make(t)
  BY Visitor, <1>8 DEF Make, TypeOK, Places, LockInv, Holds, Runs, Visiting
<1>9. CASE Ctor(t)
  BY Visitor, <1>9 DEF Ctor, TypeOK, Places, LockInv, Holds, Runs, Visiting
<1>10. CASE Reenter(t)
  BY Visitor, <1>10 DEF Reenter, TypeOK, Places, LockInv, Holds, Runs, Visiting
<1>11. CASE Done(t)
  BY Visitor, <1>11 DEF Done, TypeOK, Places, LockInv, Holds, Runs, Visiting
<1>12. CASE Clear(t)
  BY <1>12 DEF Clear, Cleared, TypeOK, Places, LockInv, Holds, Runs, Visiting
<1>13. CASE Unlock(t)
  BY <1>13 DEF Unlock, TypeOK, Places, LockInv, Holds, Runs, Visiting
<1>14. QED  BY <1>1, <1>2, <1>3, <1>4, <1>5, <1>6, <1>7, <1>8, <1>9, <1>10,
   <1>11, <1>12, <1>13 DEF Step

LEMMA StackStep ==
    ASSUME SccInv, NEW t \in Threads, Call(t) \/ Step(t)
    PROVE  StackInv'
<1> USE SccAssumption DEF At, Goto, Learn, shared, stack, memory, SccInv
<1>1. CASE Call(t)
  BY <1>1 DEF Call, Acquired, TypeOK, Places, StackInv, Visiting, Running
<1>2. CASE Impl(t)
  BY <1>2 DEF Impl, TypeOK, Places, StackInv, Visiting, Running
<1>3. CASE Defaults(t)
  BY <1>3 DEF Defaults, TypeOK, Places, StackInv, Visiting, Running
<1>4. CASE MakeEmpty(t)
  BY <1>4 DEF MakeEmpty, TypeOK, Places, StackInv, Visiting, Running
<1>5. CASE Lock(t)
  BY <1>5 DEF Lock, TypeOK, Places, StackInv, Visiting, Running
<1>6. CASE Mark(t)
  BY NoneRunning, <1>6 DEF Mark, Visit, TypeOK, Places, StackInv, LockInv,
     Holds, Runs, Visiting, Running
<1>7. CASE LookAtDep(t)
  <2> USE DEF LookAtDep, TypeOK, Visiting, Running
  <2>1. cur \in Sccs /\ Running(cur) /\ \A u \in Threads : Holds(u) => u = t
    BY Visitor, <1>7
  <2>2. PICK d \in todo[cur] : IF Unvisited(d) THEN Visit(d, cur)
                               ELSE UNCHANGED <<visit_status, cur, caller>>
    BY <1>7
  <2>3. CASE ~Unvisited(d)
    BY <2>2, <2>3, <1>7 DEF StackInv
  <2>4. CASE Unvisited(d)
    <3>1. d \in Sccs /\ ~Running(d) /\ d # cur
      BY <2>1, <2>4 DEF Unvisited
    <3>2. Rank[d] < Rank[cur] /\ Rank \in [Sccs -> Nat]
      BY <2>1, TodoIsDeps
    <3>3. cur' = d /\ caller' = [caller EXCEPT ![d] = cur]
          /\ visit_status' = [visit_status EXCEPT ![d] = "running"] /\ pc' = pc
      BY <2>2, <2>4, <1>7 DEF Visit
    <3>4. \A s \in Sccs : Running(s)' <=> Running(s) \/ s = d
      BY <3>1, <3>3
    <3>5. \A s \in Sccs : s # d => caller'[s] = caller[s]
      BY <3>3
    <3>6. caller'[d] = cur
      BY <3>1, <3>3
    <3>7. \A s \in Sccs : Running(s) =>
             /\ Rank[s] \in Nat /\ Rank[d] < Rank[s]
             /\ s = cur \/ Rank[cur] < Rank[s]
      BY <3>2, <2>1 DEF StackInv
    <3> DEFINE Good(s) ==
          /\ \E u \in Threads : Visiting(u)'
          /\ s = d \/ Rank[d] < Rank[s]
          /\ caller'[s] \in Sccs =>
                Running(caller[s])' /\ Rank[s] < Rank[caller'[s]]
          /\ \A r \in Sccs : Running(r)' /\ Rank[s] < Rank[r] =>
                /\ caller'[s] \in Sccs
                /\ caller'[s] = r \/ Rank[caller'[s]] < Rank[r]
    <3>8. \E u \in Threads : Visiting(u)'
      BY <1>7, <3>3
    <3>9. Good(d)
      BY <2>1, <3>1, <3>2, <3>4, <3>6, <3>7, <3>8
    <3>10. ASSUME NEW s \in Sccs, Running(s), s # d PROVE Good(s)
      <4>1. caller'[s] = caller[s] /\ ~(Rank[s] < Rank[d])
        BY <3>1, <3>2, <3>5, <3>7, <3>10
      <4>2. QED
        BY <3>1, <3>4, <3>7, <3>8, <3>10, <4>1 DEF StackInv
    <3>11. \A s \in Sccs : Running(s)' => Good(s)
      BY <3>4, <3>9, <3>10
    <3>12. \A u \in Threads : Visiting(u)' => cur' \in Sccs /\ Running(cur)'
      BY <3>1, <3>3
    <3>13. QED  BY <3>3, <3>11, <3>12 DEF StackInv
  <2>5. QED  BY <2>3, <2>4
<1>8. CASE Make(t)
  BY Visitor, <1>8 DEF Make, TypeOK, Places, StackInv, Visiting, Running
<1>9. CASE Ctor(t)
  BY Visitor, <1>9 DEF Ctor, TypeOK, Places, StackInv, Visiting, Running
<1>10. CASE Reenter(t)
  BY Visitor, <1>10 DEF Reenter, TypeOK, Places, StackInv, Visiting, Running
<1>11. CASE Done(t)
  BY Visitor, <1>11 DEF Done, TypeOK, Places, StackInv, Visiting, Running
<1>12. CASE Clear(t)
  BY <1>12 DEF Clear, Cleared, TypeOK, Places, StackInv, Visiting, Running
<1>13. CASE Unlock(t)
  BY <1>13 DEF Unlock, TypeOK, Places, StackInv, Visiting, Running
<1>14. QED  BY <1>1, <1>2, <1>3, <1>4, <1>5, <1>6, <1>7, <1>8, <1>9, <1>10,
   <1>11, <1>12, <1>13 DEF Step

LEMMA MadeStep ==
    ASSUME SccInv, NEW t \in Threads, Call(t) \/ Step(t)
    PROVE  MadeInv'
<1> USE SccAssumption DEF At, Goto, Learn, shared, stack, memory, SccInv
<1>1. CASE Call(t)
  BY <1>1 DEF Call, Acquired, TypeOK, Places, MadeInv, Initialized, Running,
     Visiting
<1>2. CASE Impl(t)
  BY <1>2 DEF Impl, TypeOK, Places, MadeInv, Initialized, Running, Visiting
<1>3. CASE Defaults(t)
  BY <1>3 DEF Defaults, TypeOK, Places, MadeInv, Initialized, Running, Visiting
<1>4. CASE MakeEmpty(t)
  BY <1>4 DEF MakeEmpty, TypeOK, Places, MadeInv, Initialized, Running,
     Visiting
<1>5. CASE Lock(t)
  BY <1>5 DEF Lock, TypeOK, Places, MadeInv, Initialized, Running, Visiting
<1>6. CASE Mark(t)
  BY NoneRunning, <1>6 DEF Mark, Visit, TypeOK, Places, MadeInv, LockInv,
     Holds, Runs, Initialized, Running, Visiting
<1>7. CASE LookAtDep(t)
  BY Visitor, <1>7 DEF LookAtDep, Visit, Unvisited, TypeOK, Places, MadeInv,
     Initialized, Running, Visiting
<1>8. CASE Make(t)
  BY Visitor, <1>8 DEF Make, TypeOK, Places, MadeInv, LockInv, Holds, Runs,
     Initialized, Running, Visiting
<1>9. CASE Ctor(t)
  BY Visitor, <1>9 DEF Ctor, TypeOK, Places, MadeInv, Initialized, Running,
     Visiting
<1>10. CASE Reenter(t)
  BY Visitor, <1>10 DEF Reenter, TypeOK, Places, MadeInv, Initialized, Running,
     Visiting
<1>11. CASE Done(t)
  <2> USE DEF Done, TypeOK, Visiting, Running, Initialized
  <2>1. cur \in Sccs /\ Running(cur) /\ \A u \in Threads : Holds(u) => u = t
    BY Visitor, <1>11
  <2>2. made[cur] = 1 /\ todo[cur] = {}
    BY <1>11 DEF MadeInv
  <2>3. \A d \in Deps[cur] : d \in Sccs /\ Initialized(d)
    BY DepsReady, <2>2, <1>11
  <2>4. caller[cur] \in Sccs => caller[cur] # cur /\ Running(caller[cur])
    BY <2>1 DEF StackInv
  <2>5. caller[cur] \in Sccs => made[caller[cur]] = 0
    BY <2>1, <2>4 DEF MadeInv
  <2>6. caller[cur] = NoScc \/ caller[cur] \in Sccs
    BY <2>1
  <2>7. \A s \in Sccs : visit_status'[s] =
                           IF s = cur THEN "initialized" ELSE visit_status[s]
    BY <2>1, <1>11
  <2>8. /\ cur' = caller[cur] /\ made' = made /\ todo' = todo
        /\ empty_string' = empty_string
        /\ \A u \in Threads : u # t => pc'[u] = pc[u] /\ ~Visiting(u)
        /\ pc'[t] = IF caller[cur] = NoScc THEN "clear" ELSE "visit"
    BY <2>1, <1>11 DEF Holds, Runs
  <2>9. ASSUME NEW s \in Sccs
        PROVE  /\ todo[s] \subseteq Deps[s]
               /\ visit_status'[s] = "uninitialized" =>
                     made[s] = 0 /\ todo[s] = Deps[s]
               /\ Initialized(s)' => /\ made[s] = 1
                                     /\ \A d \in Deps[s] : Initialized(d)'
               /\ Running(s)' => /\ s # cur' => made[s] = 0
                                 /\ \A d \in Deps[s] : d \notin todo[s] =>
                                       visit_status'[d] # "uninitialized"
    <3>1. \A d \in Deps[s] : d \in Sccs
      OBVIOUS
    <3>2. CASE s = cur
      BY <2>1, <2>2, <2>3, <2>7, <3>2
    <3>3. CASE s # cur
      BY <2>1, <2>7, <3>1, <3>3 DEF MadeInv
    <3>4. QED  BY <3>2, <3>3
  <2>10. \A u \in Threads :
          /\ pc'[u] = "visit" => made[cur'] = 0
          /\ pc'[u] \in {"ctor", "reenter", "done"} => made[cur'] = 1 /\ todo[cur'] = {}
    <3>1. ASSUME NEW u \in Threads, u # t
          PROVE  pc'[u] \notin {"visit", "ctor", "reenter", "done"}
      BY <2>8, <3>1
    <3>2. pc'[t] = "visit" => made[cur'] = 0
      BY <2>5, <2>6, <2>8
    <3>3. pc'[t] \notin {"ctor", "reenter", "done"}
      BY <2>8
    <3>4. QED  BY <3>1, <3>2, <3>3
  <2>11. (\E s \in Sccs : made[s] # 0) => empty_string = "made"
    BY DEF MadeInv
  <2>12. QED  BY <2>8, <2>9, <2>10, <2>11 DEF MadeInv
<1>12. CASE Clear(t)
  BY <1>12 DEF Clear, Cleared, TypeOK, Places, MadeInv, Initialized, Running,
     Visiting
<1>13. CASE Unlock(t)
  BY <1>13 DEF Unlock, TypeOK, Places, MadeInv, Initialized, Running, Visiting
<1>14. QED  BY <1>1, <1>2, <1>3, <1>4, <1>5, <1>6, <1>7, <1>8, <1>9, <1>10,
   <1>11, <1>12, <1>13 DEF Step

LEMMA KnowStep ==
    ASSUME SccInv, NEW t \in Threads, Call(t) \/ Step(t)
    PROVE  KnowInv'
<1> USE SccAssumption DEF At, Goto, Learn, shared, stack, memory, SccInv
<1>1. CASE Call(t)
  BY <1>1 DEF Call, Acquired, TypeOK, Places, KnowInv, Closed, Initialized,
     Holds, Runs, Visiting
<1>2. CASE Impl(t)
  BY <1>2 DEF Impl, TypeOK, Places, LockInv, KnowInv, Closed, Initialized,
     Holds, Runs, Visiting
<1>3. CASE Defaults(t)
  BY <1>3 DEF Defaults, TypeOK, Places, KnowInv, Closed, Initialized, Holds,
     Runs, Visiting
<1>4. CASE MakeEmpty(t)
  BY <1>4 DEF MakeEmpty, TypeOK, Places, KnowInv, Closed, Initialized, Holds,
     Runs, Visiting
<1>5. CASE Lock(t)
  BY <1>5 DEF Lock, TypeOK, Places, KnowInv, Closed, Initialized, Holds, Runs,
     Visiting
<1>6. CASE Mark(t)
  BY NoneRunning, <1>6 DEF Mark, Visit, TypeOK, Places, LockInv, KnowInv,
     Closed, Initialized, Holds, Runs, Visiting
<1>7. CASE LookAtDep(t)
  <2> USE DEF LookAtDep, TypeOK, Visiting, Initialized
  <2>1. cur \in Sccs /\ \A u \in Threads : Holds(u) => u = t
    BY Visitor, <1>7
  <2>2. \A s \in Sccs :
           /\ Initialized(s)' <=> Initialized(s)
           /\ visit_status[s] # "uninitialized" =>
                 visit_status'[s] # "uninitialized"
    BY <2>1, TodoIsDeps, <1>7 DEF Unvisited, Visit
  <2>3. \A u \in Threads : pc[u] \in {"ctor", "reenter", "done"} => FALSE
    BY <2>1, <1>7 DEF Holds, Runs
  <2>4. /\ pc' = pc /\ mu' = mu /\ asked' = asked
        /\ know' = know /\ published' = published /\ unlocked' = unlocked
    BY <1>7
  <2>5. \A u \in Threads : Visiting(u) => asked[u] \in Sccs
    BY DEF LockInv
  <2>6. \A u \in Threads : pc[u] \in {"clear", "unlock"} => asked[u] \in Sccs
    BY DEF LockInv
  <2>7. QED
    BY <2>2, <2>3, <2>4, <2>5, <2>6 DEF KnowInv, Closed, Holds, Runs
<1>8. CASE Make(t)
  <2> USE DEF Make, TypeOK, Visiting, Initialized
  <2>1. /\ cur \in Sccs /\ cur' = cur /\ mu = t
        /\ \A u \in Threads : Holds(u) => u = t
    BY Visitor, <1>8
  <2>2. \A d \in Deps[cur] : d \in Sccs /\ Initialized(d)
    BY DepsReady, <1>8
  <2>3. Deps[cur] \subseteq know[t]
    BY <2>2, <1>8 DEF KnowInv, Holds, Runs
  <2>4. know' = [know EXCEPT ![t] = @ \cup {cur}]
        /\ visit_status' = visit_status /\ mu' = mu /\ asked' = asked
        /\ published' = published /\ unlocked' = unlocked
        /\ pc' = [pc EXCEPT ![t] = "ctor"]
    BY <1>8
  <2>5. \A u \in Threads : Closed(know'[u])
    BY <2>3, <2>4 DEF KnowInv, Closed
  <2>6. \A u \in Threads :
           know[u] \subseteq know'[u] /\ pc'[u] = IF u = t THEN "ctor" ELSE pc[u]
    BY <2>4
  <2>7. cur \in know'[t] /\ pc[t] = "visit"
    BY <2>4, <1>8
  <2>8. \A u \in Threads : pc'[u] \in {"ctor", "reenter", "done"} => u = t
    BY <2>1, <2>6 DEF Holds, Runs
  <2>9. \A u \in Threads : Holds(u)' <=> Holds(u)
    BY <2>6, <2>7 DEF Holds, Runs
  <2>10. QED
    BY <2>1, <2>4, <2>5, <2>6, <2>7, <2>8, <2>9 DEF KnowInv, Closed
<1>9. CASE Ctor(t)
  BY Visitor, <1>9 DEF Ctor, TypeOK, Places, KnowInv, Closed, Initialized,
     Holds, Runs, Visiting
<1>10. CASE Reenter(t)
  BY Visitor, <1>10 DEF Reenter, TypeOK, Places, KnowInv, Closed, Initialized,
     Holds, Runs, Visiting
<1>11. CASE Done(t)
  <2> USE DEF Done, TypeOK, Visiting, Initialized
  <2>1. /\ cur \in Sccs /\ Running(cur) /\ mu = t
        /\ \A u \in Threads : Holds(u) => u = t
    BY Visitor, <1>11 DEF Running
  <2>2. /\ visit_status' = [visit_status EXCEPT ![cur] = "initialized"]
        /\ published' = [published EXCEPT ![cur] = know[t]]
        /\ know' = know /\ unlocked' = unlocked /\ mu' = mu /\ asked' = asked
        /\ pc' = [pc EXCEPT ![t] = IF caller[cur] = NoScc THEN "clear" ELSE "visit"]
    BY <1>11
  <2>3. cur \in know[t] /\ Closed(know[t])
    BY <1>11 DEF KnowInv
  <2>4. asked[t] \in Sccs /\ visit_status[asked[t]] # "uninitialized"
    BY <1>11 DEF KnowInv, LockInv
  <2>5. caller[cur] = NoScc => Initialized(asked[t])'
    <3>1. SUFFICES ASSUME caller[cur] = NoScc, asked[t] # cur
                   PROVE  Initialized(asked[t])
      BY <2>1, <2>2, <2>4
    <3>2. caller[cur] \notin Sccs
      BY <3>1, SccAssumption
    <3>3. ~Running(asked[t])
      BY <2>1, <2>4, <3>1, <3>2 DEF StackInv
    <3>4. QED  BY <2>4, <3>3 DEF Running
  <2>6. \A s \in Sccs :
           /\ Initialized(s)' <=> Initialized(s) \/ s = cur
           /\ published'[s] = IF s = cur THEN know[t] ELSE published[s]
    BY <2>1, <2>2
  <2>7. \A u \in Threads :
           pc'[u] = IF u # t THEN pc[u]
                    ELSE IF caller[cur] = NoScc THEN "clear" ELSE "visit"
    BY <2>2
  <2>8. \A u \in Threads : u # t => ~Holds(u) /\ ~Holds(u)'
    BY <2>1, <2>7 DEF Holds, Runs
  <2>9. /\ Closed(unlocked')
        /\ \A s \in Sccs : Closed(published'[s])
        /\ \A s \in Sccs : Initialized(s)' => s \in published'[s]
    BY <2>2, <2>3, <2>6 DEF KnowInv
  <2>10. mu' # NoThread
    BY <2>1, <2>2, SccAssumption
  <2> DEFINE KnowOf(u) ==
        /\ Closed(know'[u])
        /\ Holds(u)' => \A s \in Sccs : Initialized(s)' => s \in know'[u]
        /\ pc'[u] \in {"ctor", "reenter", "done"} => cur' \in know'[u]
        /\ Visiting(u)' => visit_status'[asked'[u]] # "uninitialized"
        /\ pc'[u] \in {"clear", "unlock"} => Initialized(asked[u])'
        /\ pc'[u] = "idle" => asked'[u] = NoScc \/ asked'[u] \in know'[u]
  <2>11. ASSUME NEW u \in Threads, u # t PROVE KnowOf(u)
    BY <2>2, <2>7, <2>8, <2>11 DEF KnowInv, Holds, Runs
  <2>12. \A s \in Sccs : Initialized(s)' => s \in know'[t]
    BY <2>2, <2>3, <2>6, <1>11 DEF KnowInv, Holds, Runs
  <2>13. Initialized(asked[t]) => visit_status'[asked[t]] # "uninitialized"
    BY <2>4, <2>6
  <2>14. visit_status'[asked[t]] # "uninitialized"
    BY <2>1, <2>2, <2>4
  <2>15. KnowOf(t)
    BY <2>2, <2>3, <2>5, <2>7, <2>12, <2>14
  <2>16. QED  BY <2>9, <2>10, <2>11, <2>15 DEF KnowInv, Closed
<1>12. CASE Clear(t)
  BY <1>12 DEF Clear, Cleared, TypeOK, Places, KnowInv, Closed, Initialized,
     Holds, Runs, Visiting
<1>13. CASE Unlock(t)
  BY <1>13 DEF Unlock, TypeOK, Places, KnowInv, Closed, Initialized, Holds,
     Runs, Visiting
<1>14. QED  BY <1>1, <1>2, <1>3, <1>4, <1>5, <1>6, <1>7, <1>8, <1>9, <1>10,
   <1>11, <1>12, <1>13 DEF Step

LEMMA Inductive == SccInv /\ [Next]_vars => SccInv'
<1> SUFFICES ASSUME SccInv, [Next]_vars PROVE SccInv'
  OBVIOUS
<1>1. ASSUME NEW t \in Threads, Call(t) \/ Step(t) PROVE SccInv'
  BY <1>1, TypeStep, LockStep, StackStep, MadeStep, KnowStep DEF SccInv
<1>2. CASE UNCHANGED vars
  BY <1>2 DEF vars, shared, stack, memory, SccInv, TypeOK, LockInv, StackInv,
     MadeInv, KnowInv, Closed, Holds, Runs, Visiting, Running, Initialized
<1>3. QED  BY <1>1, <1>2 DEF Next

LEMMA Invariant == Spec => []SccInv
BY InitSccInv, Inductive, PTL DEF Spec

-----------------------------------------------------------------------------
(* The values of all variables of SccInit are the ones they are meant for. *)
THEOREM SccTypeOK == Spec => []TypeOK
<1>1. SccInv => TypeOK
  BY DEF SccInv
<1>2. QED  BY <1>1, Invariant, PTL

(* Whichever threads use a message type first, at once or from within the  *)
(* constructor of another, InitSCC_DFS() makes its default instances once, *)
(* and the empty string of InitProtobufDefaults() before any of them.      *)
THEOREM DefaultsMadeOnce == Spec => []MadeOnce
<1>1. SccInv => MadeOnce
  <2> SUFFICES ASSUME SccInv, NEW s \in Sccs
               PROVE  /\ made[s] <= 1
                      /\ made[s] = 1 => empty_string = "made"
    BY DEF MadeOnce
  <2>1. visit_status[s] = "uninitialized" \/ Running(s) \/ Initialized(s)
    BY DEF SccInv, TypeOK, Running, Initialized
  <2>2. made[s] = 0 \/ made[s] = 1
    <3>1. CASE Running(s) /\ s = cur
      <4>1. PICK t \in Threads : Visiting(t)
        BY <3>1 DEF SccInv, StackInv
      <4>2. QED  BY <3>1, <4>1 DEF SccInv, MadeInv, Visiting
    <3>2. QED  BY <2>1, <3>1 DEF SccInv, MadeInv
  <2>3. QED  BY <2>2 DEF SccInv, MadeInv
<1>2. QED  BY <1>1, Invariant, PTL

(* The call of InitSCC() in the constructor of a default instance returns: *)
(* InitSCCImpl() finds itself the runner and the scc running.              *)
THEOREM Reentrant == Spec => []ReentersSafely
<1>1. SccInv => ReentersSafely
  BY DEF SccInv, LockInv, ReentersSafely
<1>2. QED  BY <1>1, Invariant, PTL

(* What InitSCC() returns to is ready to be used: the thread sees the      *)
(* default instances of the type, of every type it depends on, and so on,  *)
(* though it may have taken neither the mutex nor part in making them.     *)
THEOREM ReturnsReady == Spec => []ReadyOnReturn
<1>1. SccInv => ReadyOnReturn
  BY DEF SccInv, KnowInv, Closed, ReadyOnReturn
<1>2. QED  BY <1>1, Invariant, PTL
=============================================================================
