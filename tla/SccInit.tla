------------------------------ MODULE SccInit ------------------------------
(***************************************************************************)
(* The first use of a message type: InitSCC() and InitSCCImpl() of         *)
(* google/protobuf/generated_message_util, which every constructor of the  *)
(* generated messages calls.  th_recv and the application thread may use   *)
(* the same type first, at once.                                           *)
(*                                                                         *)
(* An scc is a set of message types that refer to each other; it comes     *)
(* with the sccs it depends on.  The default instances of its types are    *)
(* made once, after those of its dependencies.                             *)
(*                                                                         *)
(* Memory is weak: know[t] is what thread t is sure to see of the default  *)
(* instances.  It grows when t makes one, when t takes the mutex, and when *)
(* t reads a status that was stored with release.  A status that t knows   *)
(* nothing of may be read as it was before.                                *)
(***************************************************************************)
EXTENDS Naturals, FiniteSets

CONSTANTS Threads, NoThread,
          Sccs, NoScc,
          Deps,          \* the sccs each depends on
          Rank           \* dependencies have lower ranks: there is no cycle

ASSUME SccAssumption ==
    /\ NoThread \notin Threads /\ NoScc \notin Sccs
    /\ Deps \in [Sccs -> SUBSET Sccs] /\ Rank \in [Sccs -> Nat]
    /\ \A s \in Sccs : \A d \in Deps[s] : Rank[d] < Rank[s]

VARIABLES pc,            \* where each thread is
          asked,         \* the scc each thread asks for
          visit_status,
          runner, mu,    \* the thread that initializes; the holder of the mutex
          empty_string,  \* "none", "making" or "made"
          cur,           \* the scc that the runner visits (its stack is caller)
          caller,        \* for each scc that is visited, the one it was visited for
          todo,          \* the dependencies it still has to look at
          made,          \* how often the instances of each scc were made
          know, published, unlocked  \* of each thread, status, and the mutex

shared == <<visit_status, runner, mu, empty_string, made>>
stack == <<cur, caller, todo>>
memory == <<know, published, unlocked>>
vars == <<pc, asked, shared, stack, memory>>

Places == {"idle", "impl", "defaults", "make_empty", "lock", "mark", "visit",
           "ctor", "reenter", "done", "clear", "unlock", "aborted", "stuck"}

TypeOK == /\ pc \in [Threads -> Places] /\ asked \in [Threads -> Sccs \cup {NoScc}]
          /\ visit_status \in [Sccs -> {"uninitialized", "running", "initialized"}]
          /\ runner \in Threads \cup {NoThread} /\ mu \in Threads \cup {NoThread}
          /\ empty_string \in {"none", "making", "made"}
          /\ cur \in Sccs \cup {NoScc} /\ caller \in [Sccs -> Sccs \cup {NoScc}]
          /\ todo \in [Sccs -> SUBSET Sccs] /\ made \in [Sccs -> Nat]
          /\ know \in [Threads -> SUBSET Sccs]
          /\ published \in [Sccs -> SUBSET Sccs] /\ unlocked \subseteq Sccs

Init == /\ pc = [t \in Threads |-> "idle"] /\ asked = [t \in Threads |-> NoScc]
        /\ visit_status = [s \in Sccs |-> "uninitialized"]
        /\ runner = NoThread /\ mu = NoThread /\ empty_string = "none"
        /\ cur = NoScc /\ caller = [s \in Sccs |-> NoScc] /\ todo = Deps
        /\ made = [s \in Sccs |-> 0]
        /\ know = [t \in Threads |-> {}]
        /\ published = [s \in Sccs |-> {}] /\ unlocked = {}

Goto(t, p) == pc' = [pc EXCEPT ![t] = p]
At(t, p) == pc[t] = p /\ UNCHANGED asked
Learn(t, S) == know' = [know EXCEPT ![t] = @ \cup S]

-----------------------------------------------------------------------------
(* InitSCC().                                                              *)
\* Mutant of Acquired: the load is relaxed.
AcquiredRelaxed(s) == {}

\* What a thread learns from the status "initialized" of s.
Acquired(s) == published[s]

Call(t) == /\ pc[t] = "idle"
           /\ \E s \in Sccs :
                /\ asked' = [asked EXCEPT ![t] = s]
                /\ \/ /\ visit_status[s] = "initialized"
                      /\ Learn(t, Acquired(s))
                      /\ UNCHANGED pc
                   \/ /\ visit_status[s] # "initialized" \/ s \notin know[t]
                      /\ Goto(t, "impl")
                      /\ UNCHANGED know
           /\ UNCHANGED <<shared, stack, published, unlocked>>

(* InitSCCImpl().  A thread only compares runner with itself, so it does   *)
(* not matter how old the value is that it reads of another.               *)
Impl(t) == /\ At(t, "impl")
           /\ Goto(t, IF runner # t THEN "defaults"
                      ELSE IF visit_status[asked[t]] = "running" THEN "idle"
                      ELSE "aborted")
           /\ UNCHANGED <<shared, stack, memory>>

(* InitProtobufDefaults(): a static local, which one thread makes while    *)
(* the others wait.                                                        *)
Defaults(t) == /\ At(t, "defaults")
               /\ \/ /\ empty_string = "made" /\ Goto(t, "lock")
                     /\ UNCHANGED empty_string
                  \/ /\ empty_string = "none" /\ Goto(t, "make_empty")
                     /\ empty_string' = "making"
               /\ UNCHANGED <<visit_status, runner, mu, made, stack, memory>>

MakeEmpty(t) == /\ At(t, "make_empty") /\ Goto(t, "lock")
                /\ empty_string' = "made"
                /\ UNCHANGED <<visit_status, runner, mu, made, stack, memory>>

Lock(t) == /\ At(t, "lock") /\ Goto(t, "mark")
           /\ mu = NoThread
           /\ mu' = t
           /\ Learn(t, unlocked)
           /\ UNCHANGED <<visit_status, runner, empty_string, made, stack,
                          published, unlocked>>

\* InitSCC_DFS(): visit s for the scc c, unless that has been done.
Visit(s, c) == /\ visit_status' = [visit_status EXCEPT ![s] = "running"]
               /\ caller' = [caller EXCEPT ![s] = c]
               /\ cur' = s

Mark(t) == /\ At(t, "mark")
           /\ runner' = t
           /\ IF visit_status[asked[t]] = "uninitialized"
                THEN Visit(asked[t], NoScc) /\ Goto(t, "visit")
                ELSE Goto(t, "clear") /\ UNCHANGED <<visit_status, cur, caller>>
           /\ UNCHANGED <<mu, empty_string, made, todo, memory>>

\* Mutant of Unvisited: every dependency is visited.
UnvisitedAny(d) == TRUE

Unvisited(d) == visit_status[d] = "uninitialized"

LookAtDep(t) ==
    /\ At(t, "visit") /\ todo[cur] # {}
    /\ \E d \in todo[cur] :
         /\ todo' = [todo EXCEPT ![cur] = @ \ {d}]
         /\ IF Unvisited(d) THEN Visit(d, cur)
                            ELSE UNCHANGED <<visit_status, cur, caller>>
    /\ UNCHANGED <<pc, runner, mu, empty_string, made, memory>>

\* init_func() makes the instances; their constructor calls InitSCC() again.
Make(t) == /\ At(t, "visit") /\ todo[cur] = {}
           /\ made' = [made EXCEPT ![cur] = @ + 1]
           /\ Learn(t, {cur})
           /\ Goto(t, "ctor")
           /\ UNCHANGED <<visit_status, runner, mu, empty_string, stack, published,
                          unlocked>>

Ctor(t) == /\ At(t, "ctor")
           /\ Goto(t, IF visit_status[cur] = "initialized" THEN "done"
                      ELSE "reenter")
           /\ UNCHANGED <<shared, stack, memory>>

\* Without the runner the thread would wait for the mutex it holds.
Reenter(t) == /\ At(t, "reenter")
              /\ Goto(t, IF runner # t THEN "stuck"
                         ELSE IF visit_status[cur] = "running" THEN "done"
                         ELSE "aborted")
              /\ UNCHANGED <<shared, stack, memory>>

\* Return from the visit of an scc to the one it was visited for.
Done(t) == /\ At(t, "done")
           /\ visit_status' = [visit_status EXCEPT ![cur] = "initialized"]
           /\ published' = [published EXCEPT ![cur] = know[t]]
           /\ cur' = caller[cur]
           /\ Goto(t, IF caller[cur] = NoScc THEN "clear" ELSE "visit")
           /\ UNCHANGED <<runner, mu, empty_string, made, caller, todo, know,
                          unlocked>>

\* Mutant of Cleared: the runner stays.
ClearedNever(t) == t

Cleared(t) == NoThread

Clear(t) == /\ At(t, "clear") /\ Goto(t, "unlock")
            /\ runner' = Cleared(t)
            /\ UNCHANGED <<visit_status, mu, empty_string, made, stack, memory>>

Unlock(t) == /\ At(t, "unlock") /\ Goto(t, "idle")
             /\ mu' = NoThread /\ unlocked' = know[t]
             /\ UNCHANGED <<visit_status, runner, empty_string, made, stack,
                            know, published>>

Step(t) == \/ Impl(t) \/ Defaults(t) \/ MakeEmpty(t) \/ Lock(t) \/ Mark(t)
           \/ LookAtDep(t) \/ Make(t) \/ Ctor(t) \/ Reenter(t) \/ Done(t)
           \/ Clear(t) \/ Unlock(t)

Next == \E t \in Threads : Call(t) \/ Step(t)

Spec == Init /\ [][Next]_vars

(* A thread in InitSCC() runs on; nobody has to call it.                   *)
FairSpec == Spec /\ \A t \in Threads : WF_vars(Step(t))

-----------------------------------------------------------------------------
(* A thread that has returned from InitSCC() sees the default instances of *)
(* what it asked for and, with each that it sees, those of everything it   *)
(* depends on.                                                             *)
ReadyOnReturn ==
    \A t \in Threads :
       pc[t] = "idle" /\ asked[t] # NoScc =>
          asked[t] \in know[t] /\ \A s \in know[t] : Deps[s] \subseteq know[t]

(* The instances of an scc are made once, whoever asks first, and not      *)
(* before the empty string that their fields refer to.                     *)
MadeOnce == \A s \in Sccs : /\ made[s] <= 1
                            /\ made[s] = 1 => empty_string = "made"

(* The constructor that calls InitSCC() again neither fails the check that *)
(* its scc is being visited nor waits for the mutex of its own thread.     *)
ReentersSafely == \A t \in Threads : pc[t] \notin {"aborted", "stuck"}

(* Every call of InitSCC() returns.                                        *)
CallsReturn == \A t \in Threads : pc[t] # "idle" ~> pc[t] = "idle"
=============================================================================
