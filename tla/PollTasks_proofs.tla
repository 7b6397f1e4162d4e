-------------------------- MODULE PollTasks_proofs --------------------------
(***************************************************************************)
(* Proofs about PollTasks, for any number of tasks and workers: a task is  *)
(* not destroyed while the pool has it, and is once nobody has; curl is set*)
(* up while a client uses it (unless two threads were in curl_global_* at  *)
(* once); and of the tasks that race to create the directories somebody    *)
(* gets through.                                                           *)
(***************************************************************************)
EXTENDS PollTasks, FiniteSetTheorems, TLAPS

Building == {"initLoad", "initStore", "setUp", "easyInit"}
Recording == {"query", "access", "mkdir", "openInput", "stream", "toPic"}
Working == Recording \cup {"release"}
Dropping == {"easyCleanup", "cleanupLoad", "cleanupStore", "tearDown"}
Places == {"idle", "run", "take"} \cup Building \cup Working \cup Dropping

Elements(s) == {s[i] : i \in 1 .. Len(s)}
Queued == Elements(queue)

(* Who has a reference to a task: handleEvent's vptr, a functor.           *)
LoopHolds(t) == task[LoopThread] = t /\ pc[LoopThread] \in {"run", "release"}
Pooled(t) == t \in Queued \/ \E w \in Workers : task[w] = t /\ pc[w] \in Working
Cleaned(t) == \E th \in Threads : task[th] = t /\ pc[th] = "easyCleanup"

PlacesInv ==
    /\ pc \in [Threads -> Places]
    /\ pc[LoopThread] \in {"idle", "run", "release"} \cup Building \cup Dropping
    /\ \A w \in Workers : pc[w] \in {"take"} \cup Working \cup Dropping
    /\ \A w \in Workers : pc[w] \in Recording => task[w] \in rooms

(* A functor is in the pool once, and only of a task that fired.           *)
FunctorsInv ==
    /\ \A i, j \in 1 .. Len(queue) : queue[i] = queue[j] => i = j
    /\ Queued \subseteq fired
    /\ \A w \in Workers : task[w] \notin Queued
    /\ \A v, w \in Workers : task[v] = task[w] /\ task[v] # NoTask => v = w
    /\ \A th \in Threads : task[th] # NoTask => task[th] \in fired

RefsInv == \A t \in Tasks :
    refs[t] = (IF LoopHolds(t) THEN 1 ELSE 0) + (IF Pooled(t) THEN 1 ELSE 0)

(* Only one thread has to do with a task before it is in the pool and when *)
(* its last reference is gone.                                             *)
Alone(th) == task[th] \notin Queued /\ \A o \in Threads \ {th} : task[o] # task[th]
AloneInv == \A th \in Threads : pc[th] \in Building \cup {"run"} \cup Dropping => Alone(th)

HandlesInv == handles = {t \in Tasks : LoopHolds(t) \/ Pooled(t) \/ Cleaned(t)}

(* Types, as far as they do not follow from the other parts.               *)
Types ==
    /\ task \in [Threads -> Tasks \cup {NoTask}]
    /\ \A th \in Threads : (task[th] = NoTask) <=> (pc[th] = Rest(th))
    /\ rooms \subseteq fired /\ fired \subseteq Tasks
    /\ queue \in Seq(Tasks)
    /\ refs \in [Tasks -> 0 .. 2]
    /\ handles \subseteq fired

Owners == Types /\ PlacesInv /\ FunctorsInv /\ RefsInv /\ AloneInv /\ HandlesInv

FileTypes ==
    /\ crashed \in BOOLEAN
    /\ dirs \subseteq {Path[i] : i \in DOMAIN Path}
    /\ level \in [Workers -> DOMAIN Path]
    /\ recorded \cup lost \cup passed \cup pictures \subseteq rooms

(* curl's count: the web service's client, and with races at most the      *)
(* constructors that have stored it (Begun); without, exactly the tasks    *)
(* that are counted in it, so that it never comes to 0.                    *)
Begun == fired \ (IF pc[LoopThread] \in {"initLoad", "initStore"}
                  THEN {task[LoopThread]} ELSE {})
BoundInv == /\ initialized \in Nat /\ loaded \in [Threads -> Nat]
            /\ up \in BOOLEAN /\ overlapped \in BOOLEAN
            /\ initialized <= Cardinality(Begun) + 1
            /\ \A th \in Threads : loaded[th] <= Cardinality(Begun) + 1

CountedAt == {"easyInit", "cleanupLoad", "cleanupStore"}
Counted == {t \in Tasks : \/ t \in handles
                          \/ \E th \in Threads : task[th] = t /\ pc[th] \in CountedAt}
CountInv ==
    /\ \A a, b \in Threads : InCurlGlobal(a) /\ InCurlGlobal(b) => a = b
    /\ initialized = Cardinality(Counted) + 1
    /\ \A th \in Threads : pc[th] \in {"initStore", "cleanupStore"} => loaded[th] = initialized
    /\ up /\ \A th \in Threads : pc[th] \notin {"setUp", "tearDown"}
CurlInv == ~overlapped => CountInv

(* Whoever finds a directory made that was not there is behind somebody.   *)
Creating == {w \in Workers : pc[w] \in {"access", "mkdir"}}
Ahead(n) == passed # {} \/ \E w \in Creating : level[w] > n
RaceInv == /\ \A w \in Workers : pc[w] = "mkdir" /\ Path[level[w]] \in dirs => Ahead(level[w])
           /\ lost # {} => Ahead(1)

-----------------------------------------------------------------------------
LEMMA AppendElements ==
    ASSUME NEW S, NEW s \in Seq(S), NEW e \in S
    PROVE  /\ Append(s, e) \in Seq(S)
           /\ Elements(Append(s, e)) = Elements(s) \cup {e}
           /\ (\A i, j \in 1 .. Len(s) : s[i] = s[j] => i = j) /\ e \notin Elements(s)
              => \A i, j \in 1 .. Len(Append(s, e)) : Append(s, e)[i] = Append(s, e)[j] => i = j
<1> DEFINE r == Append(s, e)
<1>1. /\ r \in Seq(S) /\ Len(r) = Len(s) + 1 /\ Len(s) \in Nat
      /\ \A i \in 1 .. Len(s) : r[i] = s[i]
      /\ r[Len(s) + 1] = e
  OBVIOUS
<1> HIDE DEF r
<1>2. 1 .. Len(r) = (1 .. Len(s)) \cup {Len(s) + 1}
  BY <1>1
<1>3. \A x : x \in Elements(r) <=> x \in Elements(s) \cup {e}
  BY <1>1, <1>2 DEF Elements
<1>4. ASSUME \A i, j \in 1 .. Len(s) : s[i] = s[j] => i = j, e \notin Elements(s),
             NEW i \in 1 .. Len(r), NEW j \in 1 .. Len(r), r[i] = r[j]
      PROVE  i = j
  BY <1>1, <1>2, <1>4 DEF Elements
<1>5. QED
  BY <1>1, <1>3, <1>4 DEF r

LEMMA TailElements ==
    ASSUME NEW S, NEW s \in Seq(S), s # << >>,
           \A i, j \in 1 .. Len(s) : s[i] = s[j] => i = j
    PROVE  /\ Head(s) \in S /\ Tail(s) \in Seq(S)
           /\ Elements(Tail(s)) = Elements(s) \ {Head(s)}
           /\ Head(s) \in Elements(s)
           /\ \A i, j \in 1 .. Len(Tail(s)) : Tail(s)[i] = Tail(s)[j] => i = j
<1> DEFINE r == Tail(s)
<1>1. /\ Len(s) \in Nat \ {0} /\ Head(s) = s[1] /\ s[1] \in S
      /\ r \in Seq(S) /\ Len(r) = Len(s) - 1
      /\ \A i \in 1 .. Len(s) - 1 : r[i] = s[i + 1]
  OBVIOUS
<1> HIDE DEF r
<1>2. \A x : x \in Elements(r) => x \in Elements(s) /\ x # s[1]
  BY <1>1 DEF Elements
<1>3. ASSUME NEW i \in 1 .. Len(s), s[i] # s[1]
      PROVE  s[i] \in Elements(r)
  <2>1. i - 1 \in 1 .. Len(r) /\ r[i - 1] = s[i]
    BY <1>1, <1>3
  <2>2. QED
    BY <2>1 DEF Elements
<1>4. \A i, j \in 1 .. Len(r) : r[i] = r[j] => i = j
  BY <1>1
<1>5. s[1] \in Elements(s)
  BY <1>1 DEF Elements
<1>6. Elements(r) = Elements(s) \ {s[1]}
  <2>1. \A x \in Elements(s) : x # s[1] => x \in Elements(r)
    BY <1>3 DEF Elements
  <2>2. QED
    BY <1>2, <2>1
<1>7. QED
  BY <1>1, <1>4, <1>5, <1>6 DEF r

LEMMA EmptyElements == Elements(<< >>) = {}
  BY DEF Elements

-----------------------------------------------------------------------------
(* Who owns what.  Most steps move one thread within a group of places.    *)
Late == Dropping \ {"easyCleanup"}

LEMMA SameGroup ==
    ASSUME Owners, NEW th \in Threads, NEW q \in Places,
           \/ th = LoopThread /\ pc[th] \in Building /\ q \in Building
           \/ th \in Workers /\ pc[th] \in Recording /\ q \in Working
           \/ pc[th] \in Late /\ q \in Late,
           pc' = [pc EXCEPT ![th] = q],
           UNCHANGED <<task, timerVars, queue, refs, handles>>
    PROVE  Owners'
<1> USE DEF Owners, Threads
<1>1. \A o \in Threads : pc'[o] = IF o = th THEN q ELSE pc[o]
  BY DEF PlacesInv
<1>2. UNCHANGED <<task, fired, rooms, queue, refs, handles, Queued>>
  BY DEF timerVars, Queued
<1>3. PlacesInv'
  <2>1. pc' \in [Threads -> Places]
    BY DEF PlacesInv
  <2>2. pc'[LoopThread] \in {"idle", "run", "release"} \cup Building \cup Dropping
    BY <1>1, ThreadsAssumption DEF PlacesInv, Late
  <2>3. \A w \in Workers : pc'[w] \in {"take"} \cup Working \cup Dropping
    BY <1>1, ThreadsAssumption DEF PlacesInv, Late
  <2>4. \A w \in Workers : pc'[w] \in Recording => task'[w] \in rooms'
    BY <1>1, <1>2, ThreadsAssumption DEF PlacesInv, Late, Dropping, Recording
  <2>5. QED
    BY <2>1, <2>2, <2>3, <2>4 DEF PlacesInv
<1>4. Types'
  BY <1>1, <1>2, ThreadsAssumption
     DEF Types, Rest, Late, Building, Recording, Working, Dropping
<1>5. FunctorsInv'
  BY <1>2 DEF FunctorsInv
<1>6. \A t \in Tasks : LoopHolds(t)' <=> LoopHolds(t)
  BY <1>1, <1>2, ThreadsAssumption
     DEF LoopHolds, Late, Building, Recording, Working, Dropping
<1>7. \A t \in Tasks : Pooled(t)' <=> Pooled(t)
  BY <1>1, <1>2, ThreadsAssumption
     DEF Pooled, Late, Building, Recording, Working, Dropping
<1>8. \A t \in Tasks : Cleaned(t)' <=> Cleaned(t)
  BY <1>1, <1>2, ThreadsAssumption
     DEF Cleaned, Late, Building, Recording, Working, Dropping
<1>9. RefsInv'
  BY <1>2, <1>6, <1>7 DEF RefsInv
<1>10. HandlesInv'
  BY <1>2, <1>6, <1>7, <1>8 DEF HandlesInv
<1>11. AloneInv'
  BY <1>1, <1>2 DEF AloneInv, Alone, Late, Building, Recording, Working, Dropping
<1>12. QED
  BY <1>3, <1>4, <1>5, <1>9, <1>10, <1>11

(* A thread that is done with a destroyed task.                            *)
LEMMA ToRest ==
    ASSUME Owners, NEW th \in Threads, pc[th] \in Late,
           pc' = [pc EXCEPT ![th] = Rest(th)],
           task' = [task EXCEPT ![th] = NoTask],
           UNCHANGED <<timerVars, queue, refs, handles>>
    PROVE  Owners'
<1> USE DEF Owners, Threads
<1>1. /\ \A o \in Threads : pc'[o] = IF o = th THEN Rest(th) ELSE pc[o]
      /\ \A o \in Threads : task'[o] = IF o = th THEN NoTask ELSE task[o]
  BY DEF PlacesInv, Types
<1>2. UNCHANGED <<fired, rooms, queue, refs, handles, Queued>>
  BY DEF timerVars, Queued
<1>3. PlacesInv'
  BY <1>1, <1>2, ThreadsAssumption DEF PlacesInv, Places, Rest, Recording
<1>4. Types'
  BY <1>1, <1>2, ThreadsAssumption DEF Types, Rest
<1>5. NoTask \notin Queued /\ NoTask \notin Tasks
  BY TasksAssumption DEF Types, FunctorsInv
<1>6. FunctorsInv'
  BY <1>1, <1>2, <1>5 DEF FunctorsInv
<1>7. \A t \in Tasks : LoopHolds(t)' <=> LoopHolds(t)
  BY <1>1, <1>2, <1>5, ThreadsAssumption DEF LoopHolds, Late, Dropping, Rest
<1>8. \A t \in Tasks : Pooled(t)' <=> Pooled(t)
  BY <1>1, <1>2, <1>5, ThreadsAssumption
     DEF Pooled, Late, Dropping, Rest, Working, Recording
<1>9. \A t \in Tasks : Cleaned(t)' <=> Cleaned(t)
  BY <1>1, <1>2, <1>5, ThreadsAssumption DEF Cleaned, Late, Dropping, Rest
<1>10. RefsInv'
  BY <1>2, <1>7, <1>8 DEF RefsInv
<1>11. HandlesInv'
  BY <1>2, <1>7, <1>8, <1>9 DEF HandlesInv
<1>12. AloneInv'
  <2> SUFFICES ASSUME NEW o \in Threads, pc'[o] \in Building \cup {"run"} \cup Dropping
               PROVE  Alone(o)'
    BY DEF AloneInv
  <2>1. o # th
    BY <1>1 DEF Rest, Building, Dropping
  <2>2. Alone(o) /\ task[o] # NoTask
    BY <2>1, <1>1 DEF AloneInv, Types, Rest, Building, Dropping
  <2>3. QED
    BY <2>1, <2>2, <1>1, <1>2 DEF Alone
<1>13. QED
  BY <1>3, <1>4, <1>6, <1>10, <1>11, <1>12

LEMMA HandleEventOwners == ASSUME Owners, NEW t \in Tasks, HandleEvent(t) PROVE Owners'
<1> USE DEF Owners, Threads
<1>1. /\ pc[LoopThread] = "idle" /\ t \notin fired
      /\ \A o \in Threads : pc'[o] = IF o = LoopThread THEN "initLoad" ELSE pc[o]
      /\ \A o \in Threads : task'[o] = IF o = LoopThread THEN t ELSE task[o]
      /\ fired' = fired \cup {t} /\ rooms' \in {rooms, rooms \cup {t}}
      /\ UNCHANGED <<queue, refs, handles, Queued>>
  BY DEF HandleEvent, At, Goto, PlacesInv, Types, clientVars, Queued
<1>2. PlacesInv'
  <2>1. pc' \in [Threads -> Places]
    BY DEF PlacesInv, Places, Building, HandleEvent, Goto
  <2>2. QED
    BY <1>1, <2>1, ThreadsAssumption DEF PlacesInv, Building
<1>3. Types'
  <2>1. task' \in [Threads -> Tasks \cup {NoTask}]
    BY DEF Types, HandleEvent
  <2>2. \A o \in Threads : (task'[o] = NoTask) <=> (pc'[o] = Rest(o))
    BY <1>1, TasksAssumption DEF Types, Rest
  <2>3. rooms' \subseteq fired' /\ fired' \subseteq Tasks /\ handles' \subseteq fired'
    BY <1>1 DEF Types
  <2>4. QED
    BY <1>1, <2>1, <2>2, <2>3 DEF Types, Rest
<1>4. t \notin Queued /\ \A o \in Threads : task[o] # t
  BY <1>1, TasksAssumption DEF FunctorsInv
<1>5. FunctorsInv'
  BY <1>1, <1>4, ThreadsAssumption DEF FunctorsInv
<1>6. \A u \in Tasks : LoopHolds(u)' <=> LoopHolds(u)
  BY <1>1, ThreadsAssumption DEF LoopHolds
<1>7. \A u \in Tasks : Pooled(u)' <=> Pooled(u)
  BY <1>1, ThreadsAssumption DEF Pooled
<1>8. \A u \in Tasks : Cleaned(u)' <=> Cleaned(u)
  BY <1>1, ThreadsAssumption DEF Cleaned
<1>9. RefsInv' /\ HandlesInv'
  BY <1>1, <1>6, <1>7, <1>8 DEF RefsInv, HandlesInv
<1>10. AloneInv'
  BY <1>1, <1>4, ThreadsAssumption DEF AloneInv, Alone
<1>11. QED
  BY <1>2, <1>3, <1>5, <1>9, <1>10

LEMMA EasyInitOwners == ASSUME Owners, EasyInit PROVE Owners'
<1> DEFINE t == task[LoopThread]
<1> USE DEF Owners, Threads
<1>1. /\ pc[LoopThread] = "easyInit" /\ t \in Tasks /\ t \in fired
      /\ \A o \in Threads : pc'[o] = IF o = LoopThread THEN "run" ELSE pc[o]
      /\ refs' = [refs EXCEPT ![t] = 1] /\ handles' = handles \cup {t}
      /\ UNCHANGED <<task, fired, rooms, queue, Queued>>
  BY ThreadsAssumption
     DEF EasyInit, At, Goto, PlacesInv, Types, FunctorsInv, Rest, timerVars, Queued
<1>2. Alone(LoopThread)
  BY <1>1 DEF AloneInv, Building
<1> HIDE DEF t
<1>3. PlacesInv'
  <2>1. pc' \in [Threads -> Places]
    BY DEF PlacesInv, Places, EasyInit, Goto
  <2>2. QED
    BY <1>1, <2>1, ThreadsAssumption DEF PlacesInv
<1>4. Types'
  BY <1>1, TasksAssumption DEF Types, Rest, t
<1>5. FunctorsInv'
  BY <1>1 DEF FunctorsInv
<1>6. \A u \in Tasks : LoopHolds(u)' <=> u = t
  BY <1>1 DEF LoopHolds, t
<1>7. \A u \in Tasks : Pooled(u)' <=> Pooled(u)
  BY <1>1, ThreadsAssumption DEF Pooled
<1>8. \A u \in Tasks : Cleaned(u)' <=> Cleaned(u)
  BY <1>1, ThreadsAssumption DEF Cleaned
<1>9. ~Pooled(t) /\ \A u \in Tasks : ~LoopHolds(u)
  BY <1>1, <1>2, ThreadsAssumption DEF Pooled, LoopHolds, Alone, t
<1>10. RefsInv'
  BY <1>1, <1>6, <1>7, <1>9 DEF RefsInv, Types
<1>11. HandlesInv'
  BY <1>1, <1>6, <1>7, <1>8, <1>9 DEF HandlesInv
<1>12. AloneInv'
  BY <1>1, <1>2 DEF AloneInv, Alone
<1>13. QED
  BY <1>3, <1>4, <1>5, <1>10, <1>11, <1>12

LEMMA RunOwners == ASSUME Owners, Run PROVE Owners'
<1> DEFINE t == task[LoopThread]
<1> USE DEF Owners, Threads
<1>1. /\ pc[LoopThread] = "run" /\ t \in Tasks /\ t \in fired
      /\ \A o \in Threads : pc'[o] = IF o = LoopThread THEN "release" ELSE pc[o]
      /\ refs' = [refs EXCEPT ![t] = @ + 1] /\ queue' = Append(queue, t)
      /\ UNCHANGED <<task, fired, rooms, handles>>
  BY ThreadsAssumption
     DEF Run, At, Goto, PlacesInv, Types, FunctorsInv, Rest, timerVars
<1>2. t \notin Queued /\ \A w \in Workers : task[w] # t
  BY <1>1, ThreadsAssumption DEF AloneInv, Alone
<1> HIDE DEF t
<1>3. /\ queue' \in Seq(Tasks) /\ Queued' = Queued \cup {t}
      /\ \A i, j \in 1 .. Len(queue') : queue'[i] = queue'[j] => i = j
  BY <1>1, <1>2, AppendElements DEF Types, FunctorsInv, Queued
<1>4. PlacesInv'
  <2>1. pc' \in [Threads -> Places]
    BY DEF PlacesInv, Places, Working, Run, Goto
  <2>2. QED
    BY <1>1, <2>1, ThreadsAssumption DEF PlacesInv
<1>5. \A u \in Tasks : LoopHolds(u)' <=> LoopHolds(u)
  BY <1>1 DEF LoopHolds
<1>6. \A u \in Tasks : Pooled(u)' <=> Pooled(u) \/ u = t
  BY <1>1, <1>3, ThreadsAssumption DEF Pooled
<1>7. \A u \in Tasks : Cleaned(u)' <=> Cleaned(u)
  BY <1>1, ThreadsAssumption DEF Cleaned
<1>8. ~Pooled(t) /\ LoopHolds(t)
  BY <1>1, <1>2, ThreadsAssumption DEF Pooled, LoopHolds, t
<1>9. refs[t] = 1
  BY <1>1, <1>8 DEF RefsInv
<1>10. Types'
  BY <1>1, <1>3, <1>9, TasksAssumption DEF Types, Rest, t
<1>11. FunctorsInv'
  BY <1>1, <1>2, <1>3 DEF FunctorsInv
<1>12. RefsInv'
  BY <1>1, <1>5, <1>6, <1>8, <1>9 DEF RefsInv, Types
<1>13. HandlesInv'
  BY <1>1, <1>5, <1>6, <1>7, <1>8 DEF HandlesInv
<1>14. AloneInv'
  BY <1>1, <1>3 DEF AloneInv, Alone, Building, Dropping, t
<1>15. QED
  BY <1>4, <1>10, <1>11, <1>12, <1>13, <1>14

LEMMA TakeOwners == ASSUME Owners, NEW w \in Workers, Take(w) PROVE Owners'
<1> DEFINE t == Head(queue)
           q == IF t \in rooms THEN "query" ELSE "release"
<1> USE DEF Owners, Threads
<1>1. /\ pc[w] = "take" /\ queue # << >>
      /\ \A o \in Threads : pc'[o] = IF o = w THEN q ELSE pc[o]
      /\ \A o \in Threads : task'[o] = IF o = w THEN t ELSE task[o]
      /\ queue' = Tail(queue)
      /\ UNCHANGED <<fired, rooms, refs, handles>>
  BY DEF Take, At, Goto, PlacesInv, Types, timerVars, clientVars
<1>2. /\ t \in Tasks /\ queue' \in Seq(Tasks)
      /\ Queued' = Queued \ {t} /\ t \in Queued
      /\ \A i, j \in 1 .. Len(queue') : queue'[i] = queue'[j] => i = j
  BY <1>1, TailElements DEF Types, FunctorsInv, Queued
<1>3. task[w] = NoTask /\ w # LoopThread /\ NoTask \notin Tasks
  BY <1>1, TasksAssumption, ThreadsAssumption DEF Types, Rest
<1>4. q \in Working /\ (q \in Recording => t \in rooms) /\ q # "take"
  BY DEF Working, Recording
<1> HIDE DEF t, q
<1>5. PlacesInv'
  <2>1. pc' \in [Threads -> Places]
    BY <1>4 DEF PlacesInv, Places, Take, Goto, t, q
  <2>2. QED
    BY <1>1, <1>3, <1>4, <2>1 DEF PlacesInv
<1>6. Types'
  <2>1. task' \in [Threads -> Tasks \cup {NoTask}]
    BY <1>2 DEF Types, Take, t
  <2>2. \A o \in Threads : (task'[o] = NoTask) <=> (pc'[o] = Rest(o))
    BY <1>1, <1>2, <1>3, <1>4 DEF Types, Rest
  <2>3. QED
    BY <1>1, <1>2, <2>1, <2>2 DEF Types, Rest
<1>7. FunctorsInv'
  BY <1>1, <1>2, <1>3 DEF FunctorsInv
<1>8. \A u \in Tasks : LoopHolds(u)' <=> LoopHolds(u)
  BY <1>1, <1>3 DEF LoopHolds
<1>9. \A u \in Tasks : Pooled(u)' <=> Pooled(u)
  BY <1>1, <1>2, <1>3, <1>4 DEF Pooled
<1>10. \A u \in Tasks : Cleaned(u)' <=> Cleaned(u)
  BY <1>1, <1>2, <1>3, <1>4 DEF Cleaned, Working, Recording
<1>11. RefsInv' /\ HandlesInv'
  BY <1>1, <1>8, <1>9, <1>10 DEF RefsInv, HandlesInv
<1>12. AloneInv'
  <2> SUFFICES ASSUME NEW o \in Threads, pc'[o] \in Building \cup {"run"} \cup Dropping
               PROVE  Alone(o)'
    BY DEF AloneInv
  <2>1. o # w
    BY <1>1, <1>4 DEF Working, Recording, Building, Dropping
  <2>2. Alone(o) /\ task[o] # t
    BY <1>1, <1>2, <2>1 DEF AloneInv, Alone
  <2>3. QED
    BY <1>1, <1>2, <2>1, <2>2 DEF Alone
<1>13. QED
  BY <1>5, <1>6, <1>7, <1>11, <1>12

(* Whoever drops the last reference is alone with the task.                *)
LEMMA LastReference ==
    ASSUME Owners, NEW th \in Threads, pc[th] = "release"
    PROVE  /\ task[th] \in Tasks
           /\ refs[task[th]] \in {1, 2}
           /\ refs[task[th]] = 1 => Alone(th)
           /\ th = LoopThread => LoopHolds(task[th])
           /\ th \in Workers => Pooled(task[th]) /\ task[th] \notin Queued
<1> DEFINE t == task[th]
<1> USE DEF Owners, Threads
<1>1. t \in Tasks /\ t # NoTask
  BY ThreadsAssumption, TasksAssumption DEF Types, Rest
<1>2. th = LoopThread => LoopHolds(t)
  BY DEF LoopHolds
<1>3. th \in Workers => Pooled(t) /\ t \notin Queued
  BY DEF Pooled, Working, FunctorsInv
<1>4. refs[t] \in {1, 2}
  BY <1>1, <1>2, <1>3 DEF RefsInv
<1>5. ASSUME refs[t] = 1 PROVE Alone(th)
  <2>1. ~(LoopHolds(t) /\ Pooled(t))
    BY <1>1, <1>5 DEF RefsInv
  <2>2. t \notin Queued
    BY <2>1, <1>2, <1>3 DEF Pooled
  <2>3. ASSUME NEW o \in Threads \ {th}, task[o] = t PROVE FALSE
    <3>1. ~Alone(o)
      BY <2>3 DEF Alone
    <3>2. pc[o] \notin Building \cup {"run"} \cup Dropping
      BY <3>1, <2>3 DEF AloneInv
    <3>3. pc[o] # Rest(o)
      BY <2>3, <1>1 DEF Types
    <3>4. CASE o = LoopThread
      <4>1. LoopHolds(t)
        BY <2>3, <3>2, <3>3, <3>4 DEF PlacesInv, Rest, LoopHolds
      <4>2. QED
        BY <4>1, <2>1, <1>3, <2>3, <3>4
    <3>5. CASE o \in Workers
      <4>1. Pooled(t)
        BY <2>3, <3>2, <3>3, <3>5, ThreadsAssumption DEF PlacesInv, Rest, Pooled
      <4>2. th \in Workers
        BY <4>1, <2>1, <1>2
      <4>3. QED
        BY <4>2, <2>3, <3>5, <1>1 DEF FunctorsInv
    <3>6. QED
      BY <3>4, <3>5
  <2>4. QED
    BY <2>2, <2>3 DEF Alone
<1>6. QED
  BY <1>1, <1>2, <1>3, <1>4, <1>5

LEMMA ReleaseOwners == ASSUME Owners, NEW th \in Threads, Release(th) PROVE Owners'
<1> DEFINE t == task[th]
           ends == refs[t] = 1
           q == IF ends THEN "easyCleanup" ELSE Rest(th)
           n == IF ends THEN t ELSE NoTask
<1> USE DEF Owners, Threads
<1>1. pc[th] = "release"
  BY DEF Release, At
<1>2. /\ t \in Tasks /\ refs[t] \in {1, 2}
      /\ ends => Alone(th)
      /\ th = LoopThread => LoopHolds(t)
      /\ th \in Workers => Pooled(t) /\ t \notin Queued
  BY <1>1, LastReference
<1>3. /\ refs' = [refs EXCEPT ![t] = refs[t] - 1]
      /\ refs'[t] = refs[t] - 1
  BY <1>2 DEF Release, Types
<1>4. pc' = [pc EXCEPT ![th] = q] /\ task' = [task EXCEPT ![th] = n]
  BY <1>2, <1>3 DEF Release, Goto, Types
<1>5. UNCHANGED <<fired, rooms, queue, handles, Queued>>
  BY DEF Release, timerVars, Queued
<1>6. n \in {t, NoTask} /\ q \in {"easyCleanup", Rest(th)} /\ NoTask \notin Tasks
      /\ (n = NoTask <=> q = Rest(th)) /\ (q = "easyCleanup" <=> ends)
  BY <1>2, TasksAssumption DEF Rest
<1> HIDE DEF t, q, n, ends
<1>7. /\ \A o \in Threads : pc'[o] = IF o = th THEN q ELSE pc[o]
      /\ \A o \in Threads : task'[o] = IF o = th THEN n ELSE task[o]
  BY <1>4 DEF PlacesInv, Types
<1>8. PlacesInv'
  <2>1. pc' \in [Threads -> Places]
    BY <1>4, <1>6 DEF PlacesInv, Places, Dropping, Rest
  <2>2. QED
    BY <1>5, <1>6, <1>7, <2>1, ThreadsAssumption
       DEF PlacesInv, Rest, Dropping, Recording
<1>9. Types'
  <2>1. task' \in [Threads -> Tasks \cup {NoTask}]
    BY <1>2, <1>4, <1>6 DEF Types
  <2>2. \A o \in Threads : (task'[o] = NoTask) <=> (pc'[o] = Rest(o))
    BY <1>6, <1>7 DEF Types, Rest
  <2>3. refs' \in [Tasks -> 0 .. 2]
    BY <1>2, <1>3 DEF Types
  <2>4. QED
    BY <1>5, <2>1, <2>2, <2>3 DEF Types, Rest
<1>10. FunctorsInv'
  <2>1. NoTask \notin Queued
    BY TasksAssumption DEF Types, FunctorsInv
  <2>2. QED
    BY <1>2, <1>5, <1>6, <1>7, <2>1 DEF FunctorsInv, t
<1>11. \A u \in Tasks : LoopHolds(u)' <=> LoopHolds(u) /\ (th = LoopThread => u # t)
  BY <1>1, <1>6, <1>7, ThreadsAssumption DEF LoopHolds, t, Rest
<1>12. \A u \in Tasks : Pooled(u)' <=> Pooled(u) /\ (th \in Workers => u # t)
  <2>1. CASE th = LoopThread
    BY <2>1, <1>5, <1>7, ThreadsAssumption DEF Pooled
  <2>2. CASE th \in Workers
    <3>1. \A w \in Workers : task[w] = t => w = th
      BY <2>2, <1>2, <1>6 DEF FunctorsInv, t
    <3>2. q \notin Working
      BY <2>2, <1>6, ThreadsAssumption DEF Rest, Working, Recording
    <3>3. pc[th] \in Working /\ task[th] = t
      BY <1>1 DEF Working, t
    <3>4. QED
      BY <2>2, <3>1, <3>2, <3>3, <1>2, <1>5, <1>7 DEF Pooled
  <2>3. QED
    BY <2>1, <2>2
<1>13. \A u \in Tasks : Cleaned(u)' <=> Cleaned(u) \/ (u = t /\ ends)
  <2>1. pc[th] # "easyCleanup" /\ (ends => n = t)
    BY <1>1 DEF n
  <2>2. QED
    BY <2>1, <1>6, <1>7 DEF Cleaned
<1>14. RefsInv'
  BY <1>2, <1>3, <1>11, <1>12, ThreadsAssumption DEF RefsInv, Types
<1>15. HandlesInv'
  <2>1. ends => ~LoopHolds(t) \/ ~Pooled(t)
    BY <1>2 DEF RefsInv, ends
  <2>2. ~ends => LoopHolds(t) /\ Pooled(t)
    BY <1>2 DEF RefsInv, ends
  <2>3. \A u \in Tasks : LoopHolds(u)' \/ Pooled(u)' \/ Cleaned(u)'
                         <=> LoopHolds(u) \/ Pooled(u) \/ Cleaned(u)
    BY <1>2, <1>11, <1>12, <1>13, <2>1, <2>2, ThreadsAssumption
  <2>4. QED
    BY <2>3, <1>5 DEF HandlesInv
<1>16. AloneInv'
  <2> SUFFICES ASSUME NEW o \in Threads, pc'[o] \in Building \cup {"run"} \cup Dropping
               PROVE  Alone(o)'
    BY DEF AloneInv
  <2>1. CASE o = th
    <3>1. ends /\ n = t
      BY <2>1, <1>6, <1>7 DEF Rest, Building, Dropping, n
    <3>2. QED
      BY <2>1, <3>1, <1>2, <1>5, <1>7 DEF Alone, t
  <2>2. CASE o # th
    <3>1. Alone(o) /\ task[o] # NoTask
      BY <2>2, <1>7 DEF AloneInv, Types, Rest, Building, Dropping
    <3>2. QED
      BY <2>2, <3>1, <1>5, <1>6, <1>7 DEF Alone, t
  <2>3. QED
    BY <2>1, <2>2
<1>17. QED
  BY <1>8, <1>9, <1>10, <1>14, <1>15, <1>16

LEMMA EasyCleanupOwners == ASSUME Owners, NEW th \in Threads, EasyCleanup(th) PROVE Owners'
<1> DEFINE t == task[th]
<1> USE DEF Owners, Threads
<1>1. /\ pc[th] = "easyCleanup" /\ t \in Tasks
      /\ pc' = [pc EXCEPT ![th] = "cleanupLoad"]
      /\ \A o \in Threads : pc'[o] = IF o = th THEN "cleanupLoad" ELSE pc[o]
      /\ handles' = handles \ {t}
      /\ UNCHANGED <<task, fired, rooms, queue, refs, Queued>>
  BY ThreadsAssumption
     DEF EasyCleanup, At, Goto, PlacesInv, Types, Rest, timerVars, Queued
<1>2. Alone(th)
  BY <1>1 DEF AloneInv, Dropping
<1>3. ~LoopHolds(t) /\ ~Pooled(t)
  BY <1>1, <1>2 DEF LoopHolds, Pooled, Alone, Working, Recording
<1> HIDE DEF t
<1>4. PlacesInv'
  <2>1. pc' \in [Threads -> Places]
    BY <1>1 DEF PlacesInv, Places, Dropping
  <2>2. QED
    BY <1>1, <2>1 DEF PlacesInv, Dropping, Recording
<1>5. Types'
  BY <1>1, ThreadsAssumption DEF Types, Rest
<1>6. FunctorsInv'
  BY <1>1 DEF FunctorsInv
<1>7. \A u \in Tasks : LoopHolds(u)' <=> LoopHolds(u)
  BY <1>1 DEF LoopHolds
<1>8. \A u \in Tasks : Pooled(u)' <=> Pooled(u)
  BY <1>1 DEF Pooled, Working, Recording
<1>9. \A u \in Tasks : Cleaned(u)' <=> Cleaned(u) /\ u # t
  BY <1>1, <1>2 DEF Cleaned, Alone, t
<1>10. RefsInv'
  BY <1>1, <1>7, <1>8 DEF RefsInv
<1>11. HandlesInv'
  BY <1>1, <1>3, <1>7, <1>8, <1>9 DEF HandlesInv
<1>12. AloneInv'
  BY <1>1, <1>2 DEF AloneInv, Alone
<1>13. QED
  BY <1>4, <1>5, <1>6, <1>10, <1>11, <1>12

(* The steps of a recording.                                               *)
LEMMA Moves ==
    ASSUME Owners, NEW w \in Workers, SelectLiveInfo(w) \/ Record(w)
    PROVE  /\ pc[w] \in Recording
           /\ \E q \in Working : pc' = [pc EXCEPT ![w] = q]
           /\ UNCHANGED <<task, timerVars, queue, clientVars, crashed>>
<1>1. CASE SelectLiveInfo(w)
  BY <1>1 DEF SelectLiveInfo, At, Goto, Working, Recording
<1>2. CASE Access(w) \/ Mkdir(w)
  BY <1>2 DEF Access, Mkdir, NextComponent, At, Goto, Working, Recording
<1>3. CASE MkdirFails(w) \/ OpenInputFails(w) \/ OpenOutput(w)
  BY <1>3 DEF MkdirFails, OpenInputFails, OpenOutput, At, Goto, Working, Recording
<1>4. CASE StreamEnds(w) \/ StreamFails(w) \/ FlvToPic(w)
  BY <1>4 DEF StreamEnds, StreamFails, FlvToPic, At, Goto, Working, Recording
<1>5. QED
  BY <1>1, <1>2, <1>3, <1>4 DEF Record

LEMMA NextOwners == Owners /\ [Next]_vars => Owners'
<1> SUFFICES ASSUME Owners, [Next]_vars PROVE Owners'
  OBVIOUS
<1>1. CASE UNCHANGED vars
  BY <1>1 DEF vars, timerVars, clientVars, Owners, Types, PlacesInv, FunctorsInv, RefsInv,
              AloneInv, HandlesInv, Alone, LoopHolds, Pooled, Cleaned, Queued
<1>2. CASE \E t \in Tasks : HandleEvent(t)
  BY <1>2, HandleEventOwners
<1>3. CASE InitLoad \/ InitStore \/ SetUp
  <2>1. pc[LoopThread] \in Building /\ UNCHANGED <<task, timerVars, queue, refs, handles>>
    BY <1>3 DEF InitLoad, InitStore, SetUp, At, Building
  <2>2. \E q \in Building : pc' = [pc EXCEPT ![LoopThread] = q]
    BY <1>3 DEF InitLoad, InitStore, SetUp, Goto, Building
  <2>3. Building \subseteq Places /\ LoopThread \in Threads
    BY DEF Places, Threads
  <2>4. QED
    BY <2>1, <2>2, <2>3, SameGroup
<1>4. CASE EasyInit \/ Run
  BY <1>4, EasyInitOwners, RunOwners
<1>5. ASSUME NEW th \in Threads, Release(th) \/ EasyCleanup(th)
      PROVE  Owners'
  BY <1>5, ReleaseOwners, EasyCleanupOwners
<1>6. ASSUME NEW th \in Threads, CleanupLoad(th) \/ CleanupStore(th) \/ TearDown(th)
      PROVE  Owners'
  <2>1. pc[th] \in Late /\ UNCHANGED <<timerVars, queue, refs, handles>>
    BY <1>6 DEF CleanupLoad, CleanupStore, TearDown, At, Late, Dropping
  <2>2. \/ UNCHANGED task /\ \E q \in Late : pc' = [pc EXCEPT ![th] = q]
        \/ pc' = [pc EXCEPT ![th] = Rest(th)] /\ task' = [task EXCEPT ![th] = NoTask]
    BY <1>6 DEF CleanupLoad, CleanupStore, TearDown, Goto, Late, Dropping
  <2>3. Late \subseteq Places
    BY DEF Late, Places
  <2>4. QED
    BY <2>1, <2>2, <2>3, SameGroup, ToRest
<1>7. ASSUME NEW w \in Workers, Work(w)
      PROVE  Owners'
  <2>1. CASE Take(w)
    BY <2>1, TakeOwners
  <2>2. CASE ParseThrows(w)
    BY <2>2 DEF ParseThrows, timerVars, clientVars, Owners, Types, PlacesInv, FunctorsInv,
                RefsInv, AloneInv, HandlesInv, Alone, LoopHolds, Pooled, Cleaned, Queued
  <2>3. CASE SelectLiveInfo(w) \/ Record(w)
    <3>1. w \in Threads /\ Working \subseteq Places
      BY DEF Threads, Places
    <3>2. UNCHANGED <<task, timerVars, queue, refs, handles>>
      BY <2>3, Moves DEF clientVars
    <3>3. QED
      BY <2>3, <3>1, <3>2, Moves, SameGroup
  <2>4. QED
    BY <1>7, <2>1, <2>2, <2>3 DEF Work
<1>8. QED
  BY <1>1, <1>2, <1>3, <1>4, <1>5, <1>6, <1>7 DEF Next, Construct, Drop

-----------------------------------------------------------------------------
(* The directories.                                                        *)
FileInv == FileTypes /\ RaceInv

LEMMA PathFacts == /\ DOMAIN Path = {1, 2} /\ Len(Path) = 2 /\ Path[1] # Path[2]
  BY DEF Path

(* Elsewhere the race does not move.                                       *)
LEMMA FilesAlone ==
    ASSUME Owners, FileInv, UNCHANGED <<dirs, level, lost, passed>>,
           recorded' \cup pictures' \cup rooms \subseteq rooms', crashed' \in BOOLEAN,
           \A w \in Workers : pc'[w] # pc[w] => {pc[w], pc'[w]} \cap {"access", "mkdir"} = {}
    PROVE  FileInv'
<1>1. UNCHANGED <<dirs, level, lost, passed>>
  OBVIOUS
<1>2. Creating' = Creating
  <2>1. \A v \in Workers : v \in Creating' <=> v \in Creating
    BY DEF Creating
  <2>2. QED
    BY <2>1 DEF Creating
<1>3. FileTypes'
  BY <1>1 DEF FileInv, FileTypes
<1>4. \A n : Ahead(n)' <=> Ahead(n)
  BY <1>1, <1>2 DEF Ahead
<1>5. RaceInv'
  BY <1>1, <1>4 DEF FileInv, RaceInv
<1>6. QED
  BY <1>3, <1>5 DEF FileInv

LEMMA SelectFiles == ASSUME Owners, FileInv, NEW w \in Workers, SelectLiveInfo(w) PROVE FileInv'
<1>1. /\ pc[w] = "query" /\ level' = [level EXCEPT ![w] = 1]
      /\ \A v \in Workers : v # w => pc'[v] = pc[v]
      /\ pc'[w] \in {"release", "access"}
      /\ UNCHANGED <<rooms, dirs, recorded, lost, passed, pictures, crashed>>
  BY DEF SelectLiveInfo, At, Goto, timerVars, Owners, PlacesInv, Threads
<1>2. \A v \in Workers : level'[v] = IF v = w THEN 1 ELSE level[v]
  BY <1>1 DEF FileInv, FileTypes
<1>3. FileTypes'
  BY <1>1, PathFacts DEF FileInv, FileTypes
<1>4. Creating \subseteq Creating' /\ \A v \in Creating : level'[v] = level[v]
  BY <1>1, <1>2 DEF Creating
<1>5. \A n : Ahead(n) => Ahead(n)'
  BY <1>1, <1>4 DEF Ahead
<1>6. RaceInv'
  BY <1>1, <1>2, <1>5 DEF FileInv, RaceInv
<1>7. QED
  BY <1>3, <1>6 DEF FileInv

(* A component is passed over, because it is there or has been made.       *)
LEMMA NextFiles ==
    ASSUME Owners, FileInv, NEW w \in Workers, pc[w] \in {"access", "mkdir"},
           dirs' \in {dirs, dirs \cup {Path[level[w]]}},
           NextComponent(w),
           UNCHANGED <<task, rooms, recorded, lost, pictures, crashed>>
    PROVE  FileInv'
<1>1. level[w] \in {1, 2} /\ task[w] \in rooms
  BY PathFacts DEF FileInv, FileTypes, Owners, PlacesInv, Recording
<1>2. \A v \in Workers : v # w => pc'[v] = pc[v]
  BY DEF NextComponent, Goto, Owners, PlacesInv, Threads
<1>3. CASE level[w] = 2
  <2>1. passed' = passed \cup {task[w]} /\ level' = level
    BY <1>3, PathFacts DEF NextComponent
  <2>2. FileTypes'
    BY <1>1, <2>1, PathFacts DEF FileInv, FileTypes
  <2>3. RaceInv'
    BY <2>1 DEF RaceInv, Ahead
  <2>4. QED
    BY <2>2, <2>3 DEF FileInv
<1>4. CASE level[w] = 1
  <2>1. /\ pc'[w] = "access" /\ level' = [level EXCEPT ![w] = 2] /\ passed' = passed
    BY <1>4, PathFacts DEF NextComponent, Goto, Owners, PlacesInv, Threads, FileInv, FileTypes
  <2>2. \A v \in Workers : level'[v] = IF v = w THEN 2 ELSE level[v]
    BY <2>1 DEF FileInv, FileTypes
  <2>3. FileTypes'
    BY <1>1, <1>4, <2>1, PathFacts DEF FileInv, FileTypes
  <2>4. w \in Creating' /\ Ahead(1)'
    BY <2>1, <2>2 DEF Creating, Ahead
  <2>5. ASSUME NEW v \in Workers, (pc[v] = "mkdir" /\ Path[level[v]] \in dirs)'
        PROVE  Ahead(level[v])'
    <3>1. v # w /\ pc[v] = "mkdir" /\ level'[v] = level[v] /\ level[v] \in {1, 2}
      BY <1>2, <2>1, <2>2, <2>5, PathFacts DEF FileInv, FileTypes
    <3>2. CASE level[v] = 1
      BY <3>1, <3>2, <2>4
    <3>3. CASE level[v] = 2
      <4>1. Path[level[v]] \in dirs
        BY <3>1, <3>3, <2>5, <1>4, PathFacts
      <4>2. Ahead(2)
        BY <4>1, <3>1, <3>3 DEF FileInv, RaceInv
      <4>3. passed # {}
        BY <4>2, PathFacts DEF Ahead, Creating, FileInv, FileTypes
      <4>4. QED
        BY <4>3, <2>1 DEF Ahead
    <3>4. QED
      BY <3>1, <3>2, <3>3
  <2>6. RaceInv'
    BY <2>4, <2>5 DEF RaceInv
  <2>7. QED
    BY <2>3, <2>6 DEF FileInv
<1>5. QED
  BY <1>1, <1>3, <1>4

LEMMA AccessFiles == ASSUME Owners, FileInv, NEW w \in Workers, Access(w) PROVE FileInv'
<1>1. pc[w] = "access" /\ UNCHANGED <<task, rooms, dirs, recorded, lost, pictures, crashed>>
  BY DEF Access, At, timerVars
<1>2. CASE Path[level[w]] \in dirs
  <2>1. NextComponent(w)
    BY <1>2 DEF Access
  <2>2. QED
    BY <1>1, <2>1, NextFiles
<1>3. CASE Path[level[w]] \notin dirs
  <2>1. UNCHANGED <<level, passed>> /\ pc' = [pc EXCEPT ![w] = "mkdir"]
    BY <1>3 DEF Access, Goto
  <2>2. \A v \in Workers : pc'[v] = IF v = w THEN "mkdir" ELSE pc[v]
    BY <2>1 DEF Owners, PlacesInv, Threads
  <2>3. FileTypes'
    BY <1>1, <2>1 DEF FileInv, FileTypes
  <2>4. Creating' = Creating
    BY <1>1, <2>2 DEF Creating
  <2>5. RaceInv'
    BY <1>1, <1>3, <2>1, <2>2, <2>4 DEF FileInv, RaceInv, Ahead
  <2>6. QED
    BY <2>3, <2>5 DEF FileInv
<1>4. QED
  BY <1>2, <1>3

(* Whoever fails is behind somebody, or somebody has got through.          *)
LEMMA MkdirFailsFiles ==
    ASSUME Owners, FileInv, NEW w \in Workers, MkdirFails(w)
    PROVE  FileInv'
<1>1. /\ pc[w] = "mkdir" /\ Path[level[w]] \in dirs /\ lost' = lost \cup {task[w]}
      /\ \A v \in Workers : pc'[v] = IF v = w THEN "release" ELSE pc[v]
      /\ UNCHANGED <<rooms, dirs, level, recorded, passed, pictures, crashed>>
  BY DEF MkdirFails, At, Goto, timerVars, Owners, PlacesInv, Threads
<1>2. Ahead(level[w]) /\ level[w] \in {1, 2} /\ task[w] \in rooms
  BY <1>1, PathFacts DEF FileInv, FileTypes, RaceInv, Owners, PlacesInv, Recording
<1>3. \A v \in Creating : level[v] \in {1, 2}
  BY PathFacts DEF Creating, FileInv, FileTypes
<1>4. Creating' = Creating \ {w}
  BY <1>1 DEF Creating
<1>5. Ahead(level[w])'
  BY <1>1, <1>2, <1>3, <1>4 DEF Ahead
<1>6. ASSUME NEW n \in {1, 2}, Ahead(n) PROVE Ahead(n)'
  <2>1. CASE n >= level[w]
    BY <1>1, <1>2, <1>3, <1>4, <1>6, <2>1 DEF Ahead
  <2>2. CASE n < level[w]
    BY <1>1, <1>2, <1>3, <1>4, <1>5, <2>2 DEF Ahead
  <2>3. QED
    BY <1>2, <2>1, <2>2
<1>7. Ahead(1)'
  BY <1>1, <1>2, <1>3, <1>4, <1>5 DEF Ahead
<1>8. FileTypes'
  BY <1>1, <1>2 DEF FileInv, FileTypes
<1>9. RaceInv'
  BY <1>1, <1>6, <1>7, PathFacts DEF FileInv, FileTypes, RaceInv
<1>10. QED
  BY <1>8, <1>9 DEF FileInv

(* A worker's step that leaves the directories alone.                      *)
LEMMA WorkerFiles ==
    ASSUME Owners, FileInv, NEW w \in Workers,
           \/ Take(w) \/ ParseThrows(w) \/ OpenInputFails(w) \/ OpenOutput(w)
           \/ StreamEnds(w) \/ StreamFails(w) \/ FlvToPic(w)
    PROVE  FileInv'
<1>1. recorded \cup pictures \subseteq rooms /\ crashed \in BOOLEAN
  BY DEF FileInv, FileTypes
<1>2. CASE Take(w) \/ ParseThrows(w)
  <2>1. UNCHANGED <<rooms, dirs, level, recorded, lost, passed, pictures>> /\ crashed' \in BOOLEAN
    BY <1>1, <1>2 DEF Take, ParseThrows, timerVars, fileVars
  <2>2. \A v \in Workers : pc'[v] # pc[v] => {pc[v], pc'[v]} \cap {"access", "mkdir"} = {}
    BY <1>2 DEF Take, ParseThrows, At, Goto, Owners, PlacesInv, Threads
  <2>3. QED
    BY <1>1, <2>1, <2>2, FilesAlone
<1>3. CASE \/ OpenInputFails(w) \/ OpenOutput(w)
           \/ StreamEnds(w) \/ StreamFails(w) \/ FlvToPic(w)
  <2>1. pc[w] \in {"openInput", "stream", "toPic"} /\ task[w] \in rooms
    BY <1>3 DEF OpenInputFails, OpenOutput, StreamEnds, StreamFails, FlvToPic, At,
                Owners, PlacesInv, Recording
  <2>2. \E q \in {"release", "stream", "toPic"} : pc' = [pc EXCEPT ![w] = q]
    BY <1>3 DEF OpenInputFails, OpenOutput, StreamEnds, StreamFails, FlvToPic, Goto
  <2>3. \A v \in Workers : pc'[v] # pc[v] => {pc[v], pc'[v]} \cap {"access", "mkdir"} = {}
    BY <2>1, <2>2 DEF Owners, PlacesInv, Threads
  <2>4. /\ recorded' \in {recorded, recorded \cup {task[w]}}
        /\ pictures' \in {pictures, pictures \cup {task[w]}}
        /\ UNCHANGED <<rooms, dirs, level, lost, passed, crashed>>
    BY <1>3 DEF OpenInputFails, OpenOutput, StreamEnds, StreamFails, FlvToPic,
                timerVars, fileVars
  <2>5. QED
    BY <1>1, <2>1, <2>3, <2>4, FilesAlone
<1>4. QED
  BY <1>2, <1>3

LEMMA NextFileInv == Owners /\ FileInv /\ [Next]_vars => FileInv'
<1> SUFFICES ASSUME Owners, FileInv, [Next]_vars PROVE FileInv'
  OBVIOUS
<1>0. recorded \cup pictures \subseteq rooms /\ crashed \in BOOLEAN
  BY DEF FileInv, FileTypes
<1>1. CASE UNCHANGED vars
  BY <1>0, <1>1, FilesAlone DEF vars, timerVars, fileVars
<1>2. CASE Construct \/ \E t \in Tasks : HandleEvent(t)
  <2>1. /\ UNCHANGED <<dirs, level, recorded, lost, passed, pictures, crashed>>
        /\ rooms \subseteq rooms'
    BY <1>2 DEF Construct, HandleEvent, InitLoad, InitStore, SetUp, EasyInit, Run,
                timerVars, fileVars
  <2>2. \E q : pc' = [pc EXCEPT ![LoopThread] = q]
    BY <1>2 DEF Construct, HandleEvent, InitLoad, InitStore, SetUp, EasyInit, Run, Goto
  <2>3. \A v \in Workers : pc'[v] = pc[v]
    BY <2>2, ThreadsAssumption DEF Owners, PlacesInv, Threads
  <2>4. QED
    BY <1>0, <2>1, <2>3, FilesAlone
<1>3. ASSUME NEW th \in Threads, Drop(th) PROVE FileInv'
  <2>1. UNCHANGED <<rooms, dirs, level, recorded, lost, passed, pictures, crashed>>
    BY <1>3 DEF Drop, Release, EasyCleanup, CleanupLoad, CleanupStore, TearDown,
                timerVars, fileVars
  <2>2. /\ pc[th] \notin {"access", "mkdir"}
        /\ \E q : q \notin {"access", "mkdir"} /\ pc' = [pc EXCEPT ![th] = q]
    BY <1>3 DEF Drop, Release, EasyCleanup, CleanupLoad, CleanupStore, TearDown,
                At, Goto, Rest
  <2>3. \A v \in Workers : pc'[v] # pc[v] => {pc[v], pc'[v]} \cap {"access", "mkdir"} = {}
    BY <2>2 DEF Owners, PlacesInv, Threads
  <2>4. QED
    BY <1>0, <2>1, <2>3, FilesAlone
<1>4. ASSUME NEW w \in Workers, Mkdir(w) PROVE FileInv'
  <2>1. /\ pc[w] = "mkdir" /\ NextComponent(w) /\ dirs' = dirs \cup {Path[level[w]]}
        /\ UNCHANGED <<task, rooms, recorded, lost, pictures, crashed>>
    BY <1>4 DEF Mkdir, At, timerVars
  <2>2. QED
    BY <2>1, NextFiles
<1>5. QED
  BY <1>1, <1>2, <1>3, <1>4, WorkerFiles, SelectFiles, AccessFiles, MkdirFailsFiles
     DEF Next, Work, Record

-----------------------------------------------------------------------------
(* curl's count.                                                           *)
LEMMA Sizes == ASSUME Owners
               PROVE  /\ IsFiniteSet(Begun) /\ Cardinality(Begun) \in Nat
                      /\ IsFiniteSet(Counted) /\ Cardinality(Counted) \in Nat
                      /\ Cardinality(Begun) <= Cardinality(Tasks)
<1>1. Begun \subseteq Tasks /\ Counted \subseteq Tasks
  BY DEF Begun, Counted, Owners, Types
<1>2. QED
  BY <1>1, TasksAssumption, FS_Subset, FS_CardinalityType

(* Elsewhere nothing begins.                                               *)
LEMMA BeginsNot ==
    ASSUME Owners, BoundInv, UNCHANGED <<fired, initialized, loaded>>,
           up' \in BOOLEAN, overlapped' \in BOOLEAN,
           \/ UNCHANGED <<pc[LoopThread], task[LoopThread]>>
           \/ {pc[LoopThread], pc'[LoopThread]} \cap {"initLoad", "initStore"} = {}
    PROVE  BoundInv'
<1>1. Begun' = Begun
  BY DEF Begun
<1>2. QED
  BY <1>1 DEF BoundInv

LEMMA HandleEventBound ==
    ASSUME Owners, BoundInv, NEW t \in Tasks, HandleEvent(t)
    PROVE  BoundInv'
<1>1. /\ pc[LoopThread] = "idle" /\ pc'[LoopThread] = "initLoad" /\ task'[LoopThread] = t
      /\ t \notin fired /\ fired' = fired \cup {t}
  BY DEF HandleEvent, At, Goto, Owners, PlacesInv, Types, Threads
<1>2. Begun' = Begun
  BY <1>1 DEF Begun
<1>3. QED
  BY <1>2 DEF BoundInv, HandleEvent, clientVars, curlVars

LEMMA InitBound == ASSUME Owners, BoundInv, InitLoad \/ InitStore PROVE BoundInv'
<1> DEFINE t == task[LoopThread]
<1> USE DEF Owners, Threads
<1>1. UNCHANGED <<fired, up, task>>
  BY DEF InitLoad, InitStore, timerVars
<1>2. CASE InitLoad
  <2>1. pc[LoopThread] = "initLoad" /\ pc'[LoopThread] = "initStore"
    BY <1>2 DEF InitLoad, At, Goto, PlacesInv
  <2>2. Begun' = Begun
    BY <1>1, <2>1 DEF Begun
  <2>3. /\ loaded' = [loaded EXCEPT ![LoopThread] = initialized] /\ initialized' = initialized
        /\ overlapped' \in BOOLEAN
    BY <1>2 DEF InitLoad, EnterCurlGlobal, BoundInv
  <2>4. QED
    BY <1>1, <2>2, <2>3 DEF BoundInv
<1>3. CASE InitStore
  <2>1. pc[LoopThread] = "initStore" /\ pc'[LoopThread] \in {"setUp", "easyInit"}
    BY <1>3 DEF InitStore, At, Goto, PlacesInv
  <2>2. t \in fired
    BY <2>1, ThreadsAssumption DEF Types, FunctorsInv, Rest
  <2>3. Begun = fired \ {t} /\ Begun' = fired
    BY <1>1, <2>1 DEF Begun
  <2>4. Cardinality(Begun') = Cardinality(Begun) + 1
    <3>1. Begun' = Begun \cup {t} /\ t \notin Begun
      BY <2>2, <2>3
    <3>2. QED
      BY <3>1, Sizes, FS_AddElement
  <2>5. UNCHANGED <<loaded, overlapped>> /\ initialized' = loaded[LoopThread] + 1
    BY <1>3 DEF InitStore
  <2>6. QED
    BY <1>1, <2>4, <2>5, Sizes DEF BoundInv
<1>4. QED
  BY <1>2, <1>3

LEMMA CleanupBound ==
    ASSUME Owners, BoundInv, NEW th \in Threads, CleanupLoad(th) \/ CleanupStore(th)
    PROVE  BoundInv'
<1> USE DEF Owners, Threads
<1>1. Begun' = Begun
  <2>1. /\ pc[th] \in {"cleanupLoad", "cleanupStore"} /\ fired' = fired
        /\ \E q \in {"cleanupStore", "tearDown", Rest(th)} : pc' = [pc EXCEPT ![th] = q]
        /\ task' = task \/ task' = [task EXCEPT ![th] = NoTask]
    BY DEF CleanupLoad, CleanupStore, At, Goto, timerVars
  <2>2. \/ pc'[LoopThread] = pc[LoopThread] /\ task'[LoopThread] = task[LoopThread]
        \/ {pc[LoopThread], pc'[LoopThread]} \cap {"initLoad", "initStore"} = {}
    BY <2>1 DEF PlacesInv, Types, Rest
  <2>3. QED
    BY <2>1, <2>2 DEF Begun
<1>2. CASE CleanupLoad(th)
  <2>1. /\ loaded' = [loaded EXCEPT ![th] = initialized] /\ UNCHANGED <<initialized, up>>
        /\ overlapped' \in BOOLEAN
    BY <1>2 DEF CleanupLoad, EnterCurlGlobal, BoundInv
  <2>2. QED
    BY <1>1, <2>1 DEF BoundInv
<1>3. CASE CleanupStore(th)
  <2>1. /\ initialized' = IF loaded[th] = 0 THEN initialized ELSE loaded[th] - 1
        /\ UNCHANGED <<loaded, up, overlapped>>
    BY <1>3 DEF CleanupStore
  <2>2. initialized' \in Nat /\ initialized' <= Cardinality(Begun) + 1
    BY <2>1, Sizes DEF BoundInv
  <2>3. QED
    BY <1>1, <2>1, <2>2 DEF BoundInv
<1>4. QED
  BY <1>2, <1>3

LEMMA NextBound == Owners /\ BoundInv /\ [Next]_vars => BoundInv'
<1> SUFFICES ASSUME Owners, BoundInv, [Next]_vars PROVE BoundInv'
  OBVIOUS
<1> USE DEF Owners, Threads
<1>1. CASE UNCHANGED vars
  BY <1>1, BeginsNot DEF vars, timerVars, clientVars, curlVars, BoundInv
<1>2. CASE \E t \in Tasks : HandleEvent(t)
  BY <1>2, HandleEventBound
<1>3. CASE InitLoad \/ InitStore
  BY <1>3, InitBound
<1>4. CASE SetUp \/ EasyInit \/ Run
  <2>1. /\ UNCHANGED <<fired, initialized, loaded>> /\ up' \in BOOLEAN /\ overlapped' \in BOOLEAN
    BY <1>4 DEF SetUp, EasyInit, Run, timerVars, clientVars, curlVars, BoundInv
  <2>2. {pc[LoopThread], pc'[LoopThread]} \cap {"initLoad", "initStore"} = {}
    BY <1>4 DEF SetUp, EasyInit, Run, At, Goto, PlacesInv
  <2>3. QED
    BY <2>1, <2>2, BeginsNot
<1>5. ASSUME NEW th \in Threads, CleanupLoad(th) \/ CleanupStore(th)
      PROVE  BoundInv'
  BY <1>5, CleanupBound
<1>6. ASSUME NEW th \in Threads, Release(th) \/ EasyCleanup(th) \/ TearDown(th)
      PROVE  BoundInv'
  <2>1. /\ UNCHANGED <<fired, initialized, loaded>> /\ up' \in BOOLEAN /\ overlapped' \in BOOLEAN
    BY <1>6 DEF Release, EasyCleanup, TearDown, timerVars, clientVars, curlVars, BoundInv
  <2>2. /\ pc[th] \in {"release", "easyCleanup", "tearDown"}
        /\ \E q \in {"easyCleanup", "cleanupLoad", Rest(th)} : pc' = [pc EXCEPT ![th] = q]
        /\ task' = task \/ task' = [task EXCEPT ![th] = NoTask]
    BY <1>6 DEF Release, EasyCleanup, TearDown, At, Goto
  <2>3. \/ UNCHANGED <<pc[LoopThread], task[LoopThread]>>
        \/ {pc[LoopThread], pc'[LoopThread]} \cap {"initLoad", "initStore"} = {}
    BY <2>2 DEF PlacesInv, Types, Rest
  <2>4. QED
    BY <2>1, <2>3, BeginsNot
<1>7. ASSUME NEW w \in Workers, Work(w)
      PROVE  BoundInv'
  <2>1. /\ UNCHANGED <<fired, initialized, loaded, up, overlapped>>
        /\ pc'[LoopThread] = pc[LoopThread] /\ task'[LoopThread] = task[LoopThread]
    <3>1. CASE Take(w) \/ ParseThrows(w)
      BY <3>1, ThreadsAssumption
         DEF Take, ParseThrows, Goto, PlacesInv, Types, timerVars, clientVars, curlVars
    <3>2. CASE SelectLiveInfo(w) \/ Record(w)
      BY <3>2, Moves, ThreadsAssumption DEF PlacesInv, timerVars, clientVars, curlVars
    <3>3. QED
      BY <1>7, <3>1, <3>2 DEF Work
  <2>2. QED
    BY <2>1, BeginsNot DEF BoundInv
<1>8. QED
  BY <1>1, <1>2, <1>3, <1>4, <1>5, <1>6, <1>7 DEF Next, Construct, Drop

-----------------------------------------------------------------------------
(* Without two threads in curl_global_* at once the count is exact.        *)
CurlPlaces == {"initStore", "setUp", "cleanupStore", "tearDown"} \cup CountedAt

LEMMA CurlAway ==
    ASSUME Owners, CurlInv, NEW th \in Threads,
           pc[th] \notin CurlPlaces, pc'[th] \notin CurlPlaces,
           \A o \in Threads \ {th} : pc'[o] = pc[o] /\ task'[o] = task[o],
           UNCHANGED <<handles, initialized, loaded, up, overlapped>>
    PROVE  CurlInv'
<1> SUFFICES ASSUME ~overlapped' PROVE CountInv'
  BY DEF CurlInv
<1>1. CountInv
  BY DEF CurlInv
<1>2. \A o \in Threads : \A q \in CurlPlaces : pc'[o] = q <=> pc[o] = q
  OBVIOUS
<1>3. \A o \in Threads : InCurlGlobal(o)' <=> InCurlGlobal(o)
  BY <1>2 DEF InCurlGlobal, CurlPlaces, CountedAt
<1>4. Counted' = Counted
  <2>1. \A t : \A o \in Threads : task'[o] = t /\ pc'[o] \in CountedAt
                            <=> task[o] = t /\ pc[o] \in CountedAt
    BY DEF CurlPlaces
  <2>2. QED
    BY <2>1 DEF Counted
<1>5. /\ \A o \in Threads : pc'[o] \in {"initStore", "cleanupStore"}
                             <=> pc[o] \in {"initStore", "cleanupStore"}
      /\ \A o \in Threads : pc'[o] \in {"setUp", "tearDown"}
                             <=> pc[o] \in {"setUp", "tearDown"}
  BY <1>2 DEF CurlPlaces, CountedAt
<1>6. QED
  BY <1>1, <1>3, <1>4, <1>5 DEF CountInv

(* A handle takes the place of its client's constructor or destructor.     *)
LEMMA HandleCurl ==
    ASSUME Owners, CurlInv, NEW th \in Threads, (EasyInit /\ th = LoopThread) \/ EasyCleanup(th)
    PROVE  CurlInv'
<1> DEFINE t == task[th]
<1> USE DEF Owners, Threads
<1> SUFFICES ASSUME ~overlapped' PROVE CountInv'
  BY DEF CurlInv
<1>1. UNCHANGED <<task, initialized, loaded, up, overlapped>>
  BY DEF EasyInit, EasyCleanup, curlVars
<1>2. /\ pc[th] \in {"easyInit", "easyCleanup"} /\ pc'[th] \in {"run", "cleanupLoad"}
      /\ \A o \in Threads : o # th => pc'[o] = pc[o]
      /\ pc[th] = "easyInit" => handles' = handles \cup {t} /\ pc'[th] = "run"
      /\ pc[th] = "easyCleanup" => handles' = handles \ {t} /\ pc'[th] = "cleanupLoad"
  BY DEF EasyInit, EasyCleanup, At, Goto, PlacesInv
<1>3. t \in Tasks
  BY <1>2, ThreadsAssumption DEF Types, Rest
<1>4. pc[th] = "easyCleanup" => t \in handles
  BY <1>3 DEF HandlesInv, Cleaned
<1>5. CountInv
  BY <1>1 DEF CurlInv
<1>6. Counted' = Counted
  <2>1. \A u \in Tasks : u # t => ((u \in handles' <=> u \in handles)
            /\ ((\E o \in Threads : task'[o] = u /\ pc'[o] \in CountedAt)
                <=> \E o \in Threads : task[o] = u /\ pc[o] \in CountedAt))
    BY <1>1, <1>2
  <2>2. t \in Counted
    BY <1>2, <1>3, <1>4 DEF Counted, CountedAt
  <2>3. t \in Counted'
    BY <1>1, <1>2, <1>3 DEF Counted, CountedAt
  <2>4. \A u \in Tasks : u \in Counted' <=> u \in Counted
    BY <2>1, <2>2, <2>3 DEF Counted
  <2>5. QED
    BY <2>4 DEF Counted
<1>7. \A o \in Threads : InCurlGlobal(o)' <=> InCurlGlobal(o)
  BY <1>2 DEF InCurlGlobal
<1>8. /\ \A o \in Threads : pc'[o] \in {"initStore", "cleanupStore"}
                             <=> pc[o] \in {"initStore", "cleanupStore"}
      /\ \A o \in Threads : pc'[o] \in {"setUp", "tearDown"}
                             <=> pc[o] \in {"setUp", "tearDown"}
  BY <1>2
<1>9. QED
  BY <1>1, <1>5, <1>6, <1>7, <1>8 DEF CountInv

(* curl_global_* begins: the thread is the only one there.                 *)
LEMMA EnterCurl ==
    ASSUME Owners, BoundInv, CurlInv, NEW th \in Threads,
           (InitLoad /\ th = LoopThread) \/ CleanupLoad(th)
    PROVE  CurlInv'
<1> USE DEF Owners, Threads
<1> SUFFICES ASSUME ~overlapped' PROVE CountInv'
  BY DEF CurlInv
<1>1. /\ UNCHANGED <<task, handles, initialized, up>>
      /\ loaded' = [loaded EXCEPT ![th] = initialized]
      /\ ~overlapped /\ \A o \in Threads \ {th} : ~InCurlGlobal(o)
  BY DEF InitLoad, CleanupLoad, EnterCurlGlobal
<1>2. /\ \/ pc[th] = "initLoad" /\ pc'[th] = "initStore"
         \/ pc[th] = "cleanupLoad" /\ pc'[th] = "cleanupStore"
      /\ \A o \in Threads : o # th => pc'[o] = pc[o]
  BY DEF InitLoad, CleanupLoad, At, Goto, PlacesInv
<1>3. CountInv
  BY <1>1 DEF CurlInv
<1>4. Counted' = Counted
  <2>1. \A o \in Threads : pc'[o] \in CountedAt <=> pc[o] \in CountedAt
    BY <1>2 DEF CountedAt
  <2>2. QED
    BY <1>1, <2>1 DEF Counted
<1>5. \A o \in Threads : InCurlGlobal(o)' => o = th
  BY <1>1, <1>2 DEF InCurlGlobal
<1>6. /\ \A o \in Threads : pc'[o] \notin {"setUp", "tearDown"}
      /\ \A o \in Threads : pc'[o] \in {"initStore", "cleanupStore"} => o = th
  BY <1>2, <1>3, <1>5 DEF CountInv, InCurlGlobal
<1>7. loaded'[th] = initialized
  BY <1>1 DEF BoundInv
<1>8. QED
  BY <1>1, <1>3, <1>4, <1>5, <1>6, <1>7 DEF CountInv

LEMMA InitStoreCurl == ASSUME Owners, BoundInv, CurlInv, InitStore PROVE CurlInv'
<1> DEFINE th == LoopThread
           t == task[th]
<1> USE DEF Owners, Threads
<1> SUFFICES ASSUME ~overlapped' PROVE CountInv'
  BY DEF CurlInv
<1>1. UNCHANGED <<task, handles, loaded, up, overlapped>>
  BY DEF InitStore
<1>2. CountInv
  BY <1>1 DEF CurlInv
<1>3. loaded[th] = Cardinality(Counted) + 1 /\ loaded[th] # 0
  BY <1>2, Sizes DEF CountInv, InitStore, At
<1>4. /\ pc[th] = "initStore" /\ pc'[th] = "easyInit"
      /\ \A o \in Threads : o # th => pc'[o] = pc[o]
      /\ initialized' = loaded[th] + 1
  BY <1>3 DEF InitStore, At, Goto, PlacesInv
<1>5. \A o \in Threads : o # th => ~InCurlGlobal(o)
  BY <1>2, <1>4 DEF CountInv, InCurlGlobal
<1>6. t \in Tasks /\ Alone(th)
  BY <1>4, ThreadsAssumption DEF Types, Rest, AloneInv, Building
<1>7. t \notin Counted
  <2>1. ~LoopHolds(t) /\ ~Pooled(t) /\ ~Cleaned(t)
    BY <1>4, <1>6, ThreadsAssumption DEF LoopHolds, Pooled, Cleaned, Alone
  <2>2. \A o \in Threads : ~(task[o] = t /\ pc[o] \in CountedAt)
    BY <1>4, <1>6 DEF Alone, CountedAt
  <2>3. QED
    BY <2>1, <2>2 DEF Counted, HandlesInv
<1>8. Counted' = Counted \cup {t}
  <2>1. pc'[th] \in CountedAt /\ pc[th] \notin CountedAt
    BY <1>4 DEF CountedAt
  <2>2. QED
    BY <1>1, <1>4, <1>6, <2>1 DEF Counted
<1>9. initialized' = Cardinality(Counted') + 1
  BY <1>3, <1>4, <1>7, <1>8, Sizes, FS_AddElement
<1>10. \A o \in Threads : ~InCurlGlobal(o)'
  BY <1>4, <1>5 DEF InCurlGlobal
<1>11. up'
  BY <1>1, <1>2 DEF CountInv
<1>12. QED
  BY <1>9, <1>10, <1>11 DEF CountInv, InCurlGlobal

LEMMA CleanupStoreCurl ==
    ASSUME Owners, BoundInv, CurlInv, NEW th \in Threads, CleanupStore(th)
    PROVE  CurlInv'
<1> DEFINE t == task[th]
<1> USE DEF Owners, Threads
<1> SUFFICES ASSUME ~overlapped' PROVE CountInv'
  BY DEF CurlInv
<1>1. UNCHANGED <<handles, loaded, up, overlapped>>
  BY DEF CleanupStore
<1>2. CountInv
  BY <1>1 DEF CurlInv
<1>3. t \in Tasks /\ Alone(th)
  BY ThreadsAssumption DEF CleanupStore, At, Types, Rest, AloneInv, Dropping
<1>4. t \in Counted
  BY <1>3 DEF CleanupStore, At, Counted, CountedAt
<1>5. Cardinality(Counted) # 0
  BY <1>4, Sizes, FS_EmptySet
<1>6. loaded[th] = Cardinality(Counted) + 1 /\ loaded[th] \notin {0, 1}
  BY <1>2, <1>5, Sizes DEF CountInv, CleanupStore, At
<1>7. /\ pc[th] = "cleanupStore" /\ pc'[th] = Rest(th)
      /\ \A o \in Threads : o # th => pc'[o] = pc[o] /\ task'[o] = task[o]
      /\ initialized' = loaded[th] - 1
  BY <1>6 DEF CleanupStore, At, Goto, PlacesInv, Types
<1>8. \A o \in Threads : o # th => ~InCurlGlobal(o)
  BY <1>2, <1>7 DEF CountInv, InCurlGlobal
<1>9. Counted' = Counted \ {t}
  <2>1. t \notin handles
    <3>1. ~LoopHolds(t) /\ ~Pooled(t) /\ ~Cleaned(t)
      BY <1>3, <1>7, ThreadsAssumption
         DEF LoopHolds, Pooled, Cleaned, Alone, Working, Recording
    <3>2. QED
      BY <3>1 DEF HandlesInv
  <2>2. pc'[th] \notin CountedAt
    BY <1>7 DEF CountedAt, Rest
  <2>3. \A o \in Threads : o # th => task[o] # t
    BY <1>3 DEF Alone
  <2>4. \A u \in Tasks : u \in Counted' <=> u \in Counted /\ u # t
    BY <1>1, <1>7, <2>1, <2>2, <2>3 DEF Counted
  <2>5. QED
    BY <2>4 DEF Counted
<1>10. initialized' = Cardinality(Counted') + 1
  <2>1. Cardinality(Counted \ {t}) = Cardinality(Counted) - 1
    BY <1>4, Sizes, FS_RemoveElement
  <2>2. QED
    BY <1>6, <1>7, <1>9, <2>1, Sizes
<1>11. \A o \in Threads : ~InCurlGlobal(o)'
  BY <1>7, <1>8 DEF InCurlGlobal, Rest
<1>12. up'
  BY <1>1, <1>2 DEF CountInv
<1>13. QED
  BY <1>10, <1>11, <1>12 DEF CountInv, InCurlGlobal

(* curl is set up or torn down only when a count was lost before.          *)
LEMMA SwitchCurl ==
    ASSUME CurlInv, NEW th \in Threads, (SetUp /\ th = LoopThread) \/ TearDown(th)
    PROVE  CurlInv'
<1> SUFFICES ASSUME ~overlapped' PROVE FALSE
  BY DEF CurlInv
<1>1. overlapped' = overlapped /\ pc[th] \in {"setUp", "tearDown"}
  BY DEF SetUp, TearDown, At
<1>2. QED
  BY <1>1 DEF CurlInv, CountInv

LEMMA NextCurl == Owners /\ BoundInv /\ CurlInv /\ [Next]_vars => CurlInv'
<1> SUFFICES ASSUME Owners, BoundInv, CurlInv, [Next]_vars PROVE CurlInv'
  OBVIOUS
<1> USE DEF Owners, Threads
<1>1. CASE UNCHANGED vars
  BY <1>1 DEF vars, clientVars, curlVars, CurlInv, CountInv, Counted, InCurlGlobal
<1>2. CASE Run \/ \E t \in Tasks : HandleEvent(t)
  <2>1. /\ pc[LoopThread] \in {"idle", "run"} /\ pc'[LoopThread] \in {"initLoad", "release"}
        /\ \A o \in Threads \ {LoopThread} : pc'[o] = pc[o] /\ task'[o] = task[o]
        /\ UNCHANGED <<handles, initialized, loaded, up, overlapped>>
    BY <1>2 DEF Run, HandleEvent, At, Goto, PlacesInv, Types, clientVars, curlVars
  <2>2. QED
    BY <2>1, CurlAway DEF CurlPlaces, CountedAt
<1>3. CASE InitLoad \/ InitStore \/ SetUp \/ EasyInit
  BY <1>3, EnterCurl, InitStoreCurl, SwitchCurl, HandleCurl
<1>4. ASSUME NEW th \in Threads, Release(th) PROVE CurlInv'
  <2>1. /\ pc[th] = "release" /\ pc'[th] \in {"easyCleanup", Rest(th)}
        /\ \A o \in Threads \ {th} : pc'[o] = pc[o] /\ task'[o] = task[o]
        /\ UNCHANGED <<handles, initialized, loaded, up, overlapped>>
    BY <1>4 DEF Release, At, Goto, PlacesInv, Types, curlVars
  <2>2. QED
    BY <2>1, CurlAway DEF CurlPlaces, CountedAt, Rest
<1>5. ASSUME NEW th \in Threads,
             EasyCleanup(th) \/ CleanupLoad(th) \/ CleanupStore(th) \/ TearDown(th)
      PROVE  CurlInv'
  BY <1>5, HandleCurl, EnterCurl, CleanupStoreCurl, SwitchCurl
<1>6. ASSUME NEW w \in Workers, Work(w) PROVE CurlInv'
  <2>1. CASE Take(w) \/ ParseThrows(w)
    <3>1. /\ pc[w] \in {"take", "query"} /\ pc'[w] \in {"query", "release"}
          /\ \A o \in Threads \ {w} : pc'[o] = pc[o] /\ task'[o] = task[o]
          /\ UNCHANGED <<handles, initialized, loaded, up, overlapped>>
      BY <2>1 DEF Take, ParseThrows, At, Goto, PlacesInv, Types, clientVars, curlVars
    <3>2. QED
      BY <3>1, CurlAway DEF CurlPlaces, CountedAt
  <2>2. CASE SelectLiveInfo(w) \/ Record(w)
    <3>1. /\ pc[w] \in Recording /\ pc'[w] \in Working
          /\ \A o \in Threads \ {w} : pc'[o] = pc[o] /\ task'[o] = task[o]
          /\ UNCHANGED <<handles, initialized, loaded, up, overlapped>>
      BY <2>2, Moves DEF PlacesInv, clientVars, curlVars
    <3>2. QED
      BY <3>1, CurlAway DEF CurlPlaces, CountedAt, Working, Recording
  <2>3. QED
    BY <1>6, <2>1, <2>2 DEF Work
<1>7. QED
  BY <1>1, <1>2, <1>3, <1>4, <1>5, <1>6 DEF Next, Construct, Drop

-----------------------------------------------------------------------------
Inv == Owners /\ FileInv /\ BoundInv /\ CurlInv

LEMMA InitInv == Init => Inv
<1> SUFFICES ASSUME Init PROVE Inv
  OBVIOUS
<1> USE DEF Owners, Threads
<1>1. /\ \A th \in Threads : pc[th] = Rest(th) /\ task[th] = NoTask
      /\ pc \in [Threads -> Places] /\ task \in [Threads -> Tasks \cup {NoTask}]
      /\ LoopThread \notin Workers /\ NoTask \notin Tasks
  BY ThreadsAssumption, TasksAssumption DEF Init, Rest, Places
<1>2. queue = << >> /\ Queued = {}
  BY EmptyElements DEF Init, Queued
<1>3. PlacesInv
  BY <1>1 DEF PlacesInv, Rest, Recording
<1>4. Types
  <2>1. queue \in Seq(Tasks)
    BY <1>2
  <2>2. refs \in [Tasks -> 0 .. 2]
    BY DEF Init
  <2>3. rooms = {} /\ fired = {} /\ handles = {}
    BY DEF Init
  <2>4. QED
    BY <1>1, <2>1, <2>2, <2>3 DEF Types
<1>5. FunctorsInv
  BY <1>1, <1>2 DEF FunctorsInv
<1>6. \A t \in Tasks : ~LoopHolds(t) /\ ~Pooled(t) /\ ~Cleaned(t)
  BY <1>1, <1>2 DEF LoopHolds, Pooled, Cleaned
<1>7. RefsInv
  BY <1>6 DEF Init, RefsInv
<1>8. HandlesInv
  BY <1>6 DEF Init, HandlesInv
<1>9. AloneInv
  BY <1>1 DEF AloneInv, Rest, Building, Dropping
<1>10. FileInv
  BY <1>1, PathFacts DEF Init, FileInv, FileTypes, RaceInv, Rest
<1>11. Owners
  BY <1>3, <1>4, <1>5, <1>7, <1>8, <1>9
<1>12. BoundInv
  <2>1. initialized = 1 /\ loaded \in [Threads -> Nat] /\ \A th \in Threads : loaded[th] = 0
    BY DEF Init
  <2>2. up \in BOOLEAN /\ overlapped \in BOOLEAN
    BY DEF Init
  <2>3. QED
    BY <1>11, <2>1, <2>2, Sizes DEF BoundInv
<1>13. CurlInv
  <2>1. Counted = {}
    BY <1>1 DEF Init, Counted
  <2>2. Cardinality(Counted) = 0
    BY <2>1, FS_EmptySet
  <2>3. QED
    BY <1>1, <2>2 DEF Init, CurlInv, CountInv, InCurlGlobal, Rest
<1>14. QED
  BY <1>10, <1>11, <1>12, <1>13 DEF Inv

LEMMA InvAlways == Spec => []Inv
<1>1. Inv /\ [Next]_vars => Inv'
  BY NextOwners, NextFileInv, NextBound, NextCurl DEF Inv
<1>2. QED
  BY InitInv, <1>1, PTL DEF Spec

(* Every variable keeps its type: at most two references to a task, and    *)
(* curl's count within the number of clients, the tasks' and the web       *)
(* service's, races included                                               *)
(* (pollServer.cpp:60-88, LibcurClient.cpp:9 and 140, webserver.cpp:226).  *)
THEOREM TypeCorrect == Spec => []TypeOK
<1>1. Inv => TypeOK
  <2> SUFFICES ASSUME Inv PROVE TypeOK
    OBVIOUS
  <2>1. Types /\ FileTypes /\ BoundInv /\ Owners
    BY DEF Inv, Owners, FileInv
  <2>2. Cardinality(Begun) \in Nat /\ Cardinality(Tasks) \in Nat
        /\ Cardinality(Begun) <= Cardinality(Tasks)
    BY <2>1, Sizes, TasksAssumption, FS_CardinalityType
  <2>3. initialized \in 0 .. Cardinality(Tasks) + 1
    BY <2>1, <2>2 DEF BoundInv
  <2>4. loaded \in [Threads -> 0 .. Cardinality(Tasks) + 1]
    BY <2>1, <2>2 DEF BoundInv
  <2>5. QED
    BY <2>1, <2>3, <2>4 DEF Types, FileTypes, BoundInv, TypeOK
<1>2. QED
  BY InvAlways, <1>1, PTL

(* A task that waits in the pool or is worked on has not been destroyed,   *)
(* whichever of handleEvent and the worker ends first                      *)
(* (pollServer.cpp:67-69).                                                 *)
THEOREM TaskStaysAlive == Spec => []TaskAliveInPool
<1>1. Inv => TaskAliveInPool
  <2> SUFFICES ASSUME Inv PROVE TaskAliveInPool
    OBVIOUS
  <2>1. ASSUME NEW i \in DOMAIN queue PROVE queue[i] \in handles
    <3>1. queue[i] \in Queued /\ queue[i] \in Tasks
      BY DEF Inv, Owners, Types, Queued, Elements
    <3>2. QED
      BY <3>1 DEF Inv, Owners, HandlesInv, Pooled
  <2>2. ASSUME NEW w \in Workers,
               pc[w] \notin {"take", "cleanupLoad", "cleanupStore", "tearDown"}
        PROVE  task[w] \in handles
    <3>1. pc[w] \in Working \cup {"easyCleanup"}
      BY <2>2 DEF Inv, Owners, PlacesInv, Dropping
    <3>2. w \in Threads /\ task[w] \in Tasks
      BY <2>2, ThreadsAssumption DEF Inv, Owners, Types, Threads, Rest
    <3>3. QED
      BY <3>1, <3>2 DEF Inv, Owners, HandlesInv, Pooled, Cleaned
  <2>3. QED
    BY <2>1, <2>2 DEF TaskAliveInPool
<1>2. QED
  BY InvAlways, <1>1, PTL

(* As long as no two threads were in curl_global_* at once, curl stays up  *)
(* for every client, and once no task is left only the web service's       *)
(* initialisation is (LibcurClient.cpp:9 and 140, webserver.cpp:212, 226). *)
THEOREM HandlesWithinCurl == Spec => []HandlesInitialized
<1>1. Inv => HandlesInitialized
  <2> SUFFICES ASSUME Inv, ~overlapped PROVE up /\ (AtRest => initialized = 1)
    BY DEF HandlesInitialized
  <2>1. CountInv /\ Owners
    BY DEF Inv, CurlInv
  <2>2. ASSUME AtRest PROVE initialized = 1
    <3>1. \A th \in Threads : task[th] = NoTask
      BY <2>2 DEF AtRest
    <3>2. Queued = {}
      BY <2>2, EmptyElements DEF AtRest, Queued
    <3>3. \A t \in Tasks : ~LoopHolds(t) /\ ~Pooled(t) /\ ~Cleaned(t)
      BY <3>1, <3>2, TasksAssumption DEF LoopHolds, Pooled, Cleaned, Threads
    <3>4. Counted = {}
      BY <2>1, <3>1, <3>3, TasksAssumption DEF Counted, Owners, HandlesInv
    <3>5. QED
      BY <2>1, <3>4, FS_EmptySet DEF CountInv
  <2>3. QED
    BY <2>1, <2>2 DEF CountInv
<1>2. QED
  BY InvAlways, <1>1, PTL

(* Of the tasks that race to create the directories somebody gets through  *)
(* (PollBroadcastRoom.cpp:140-146).                                        *)
THEOREM RaceHasWinner == Spec => []SomebodyGetsThrough
<1>1. Inv => SomebodyGetsThrough
  BY DEF Inv, FileInv, RaceInv, Ahead, Creating, SomebodyGetsThrough
<1>2. QED
  BY InvAlways, <1>1, PTL

(* The thread that destroys a task is the only one that has to do with it, *)
(* and no task is left behind once the pool is empty and every thread is   *)
(* done (pollServer.cpp:60-88).                                            *)
THEOREM LastDropAlone == Spec => []LastDropDestroys
<1>1. Inv => LastDropDestroys
  <2> SUFFICES ASSUME Inv PROVE LastDropDestroys
    OBVIOUS
  <2> USE DEF Inv, Owners
  <2>1. ASSUME NEW th \in Threads, pc[th] = "easyCleanup"
        PROVE  /\ task[th] \in handles
               /\ \A i \in DOMAIN queue : queue[i] # task[th]
               /\ \A other \in Threads \ {th} : task[other] # task[th]
    <3>1. task[th] \in Tasks
      BY <2>1 DEF Types, Rest
    <3>2. task[th] \in handles
      BY <2>1, <3>1 DEF HandlesInv, Cleaned
    <3>3. Alone(th)
      BY <2>1 DEF AloneInv, Dropping
    <3>4. QED
      BY <3>2, <3>3 DEF Alone, Queued, Elements, Types
  <2>2. ASSUME AtRest PROVE handles = {}
    <3>1. Queued = {}
      BY <2>2, EmptyElements DEF AtRest, Queued
    <3>2. \A t \in Tasks : ~LoopHolds(t) /\ ~Pooled(t) /\ ~Cleaned(t)
      BY <2>2, <3>1, TasksAssumption DEF AtRest, LoopHolds, Pooled, Cleaned, Threads
    <3>3. QED
      BY <3>2 DEF HandlesInv
  <2>3. QED
    BY <2>1, <2>2 DEF LastDropDestroys
<1>2. QED
  BY InvAlways, <1>1, PTL

=============================================================================
