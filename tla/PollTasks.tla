------------------------------ MODULE PollTasks ------------------------------
(***************************************************************************)
(* The tasks a timer puts into the pool, from handleEvent's `new` to the   *)
(* destructor: PollLiveState and PollBroadcastRoom objects, the curl       *)
(* client each of them owns, and the recording of a room.                  *)
(*                                                                         *)
(* A task object is constructed on the event-loop thread and shared by     *)
(* handleEvent's `vptr` and the functor in the pool, so either thread may  *)
(* be the one that destroys it.  libcurl (external) counts its global      *)
(* initialisations in a plain variable: a load and a store are two steps,  *)
(* and so are setting up and tearing down what is counted.  The web service*)
(* has a client too, from before the first timer until the process ends.   *)
(*                                                                         *)
(* The pool is a FIFO queue here (see WorkerPool).  The file system is     *)
(* writable and nothing but the tasks changes it.                          *)
(***************************************************************************)
EXTENDS Naturals, Sequences, FiniteSets

CONSTANTS Tasks,     \* the task objects of a behaviour
          Workers,
          LoopThread,
          NoTask

ASSUME TasksAssumption == NoTask \notin Tasks /\ IsFiniteSet(Tasks)
ASSUME ThreadsAssumption == LoopThread \notin Workers /\ IsFiniteSet(Workers)

VARIABLES pc, task,        \* each thread's place, and the task it is about
          fired,           \* tasks whose timer has fired
          rooms,           \* those of type BROADCAST_ROOM; the others are BROADCAST
          queue,           \* functors waiting in the pool
          refs,            \* shared_ptr's use count of each task
          handles,         \* the tasks' curl handles in existence, each named by its task
          initialized,     \* curl's count of global initialisations
          loaded,          \* each thread's copy of it
          up,              \* is curl globally set up?
          overlapped,      \* history: two threads have been in curl_global_* at once
          dirs, files,     \* what exists in the file system
          level,           \* the component of the path CreateFileDir has come to
          recorded, lost, passed, pictures, \* history: how recordings went
          crashed

timerVars == <<fired, rooms>>
curlVars == <<initialized, loaded, up, overlapped>>
clientVars == <<refs, handles, curlVars>>
fileVars == <<dirs, files, level, recorded, lost, passed, pictures>>
vars == <<pc, task, timerVars, queue, clientVars, fileVars, crashed>>

Threads == Workers \cup {LoopThread}

(* The path ./RecordFile/<liveID>/ has two components to create; every     *)
(* task records the same live, pollBroadcast's "live123".                  *)
Path == <<"RecordFile", "live123">>

(* The name reciveFlv writes is the same for all tasks, ./RecordFile/.flv; *)
(* the name flvToPic reads has the live id and the task's time in it.      *)
FlvWritten(t) == "./RecordFile/.flv"
FlvRead(t) == <<"live123", t>>

(* startWebServer has constructed the web service's client, curl's first   *)
(* initialisation.  stopWebServer deletes it only if it is NULL.           *)
Init == /\ pc = [th \in Threads |-> IF th = LoopThread THEN "idle" ELSE "take"]
        /\ task = [th \in Threads |-> NoTask]
        /\ fired = {}
        /\ rooms = {}
        /\ queue = << >>
        /\ refs = [t \in Tasks |-> 0]
        /\ handles = {}
        /\ initialized = 1
        /\ loaded = [th \in Threads |-> 0]
        /\ up = TRUE
        /\ overlapped = FALSE
        /\ dirs \in {{}, {Path[1]}, {Path[1], Path[2]}}
        /\ files = {}
        /\ level = [w \in Workers |-> 1]
        /\ recorded = {}
        /\ lost = {}
        /\ passed = {}
        /\ pictures = {}
        /\ crashed = FALSE

At(th, place) == ~crashed /\ pc[th] = place
Goto(th, place) == pc' = [pc EXCEPT ![th] = place]

-----------------------------------------------------------------------------
(* The curl client: LibcurlClient's constructor and destructor.            *)

InCurlGlobal(th) == pc[th] \in {"initStore", "setUp", "cleanupStore", "tearDown"}

EnterCurlGlobal(th) ==
    /\ loaded' = [loaded EXCEPT ![th] = initialized]
    /\ overlapped' = (overlapped \/ \E other \in Threads \ {th} : InCurlGlobal(other))

(* The loop's thread in handleEvent: a timer fires.  COURSE has no task.   *)
HandleEvent(t) ==
    /\ At(LoopThread, "idle")
    /\ t \notin fired
    /\ fired' = fired \cup {t}
    /\ rooms' \in {rooms, rooms \cup {t}}
    /\ task' = [task EXCEPT ![LoopThread] = t]
    /\ Goto(LoopThread, "initLoad")
    /\ UNCHANGED <<queue, clientVars, fileVars, crashed>>

(* Seeded faults: a definition whose name ends in "Fault" is a plausible   *)
(* slip in the definition that follows it; it is not part of Next, and     *)
(* PROJECT.json names the property that notices it.                        *)
InitLoadFault ==                               \* without curl_global_init
    /\ At(LoopThread, "initLoad")
    /\ Goto(LoopThread, "easyInit")
    /\ UNCHANGED <<task, timerVars, queue, refs, handles, initialized, loaded, up,
                   overlapped, fileVars, crashed>>
(* curl_global_init: counts, and sets curl up when it is the first, which  *)
(* it is only when a count was lost before.                                *)
InitLoad ==
    /\ At(LoopThread, "initLoad")
    /\ EnterCurlGlobal(LoopThread)
    /\ Goto(LoopThread, "initStore")
    /\ UNCHANGED <<task, timerVars, queue, refs, handles, initialized, up,
                   fileVars, crashed>>

InitStore ==
    /\ At(LoopThread, "initStore")
    /\ initialized' = loaded[LoopThread] + 1
    /\ Goto(LoopThread, IF loaded[LoopThread] = 0 THEN "setUp" ELSE "easyInit")
    /\ UNCHANGED <<task, timerVars, queue, refs, handles, loaded, up,
                   overlapped, fileVars, crashed>>

SetUp ==
    /\ At(LoopThread, "setUp")
    /\ up' = TRUE
    /\ Goto(LoopThread, "easyInit")
    /\ UNCHANGED <<task, timerVars, queue, refs, handles, initialized, loaded,
                   overlapped, fileVars, crashed>>

(* curl_easy_init, the end of the constructor: vptr is the only reference. *)
EasyInit ==
    LET t == task[LoopThread]
    IN  /\ At(LoopThread, "easyInit")
        /\ handles' = handles \cup {t}
        /\ refs' = [refs EXCEPT ![t] = 1]
        /\ Goto(LoopThread, "run")
        /\ UNCHANGED <<task, timerVars, queue, curlVars, fileVars, crashed>>

RunTwiceFault ==                               \* handed over twice
    LET t == task[LoopThread]
    IN  /\ At(LoopThread, "run")
        /\ queue' = queue \o <<t, t>>
        /\ refs' = [refs EXCEPT ![t] = @ + 2]
        /\ Goto(LoopThread, "release")
        /\ UNCHANGED <<task, timerVars, handles, curlVars, fileVars, crashed>>
RunFault ==                                    \* the functor holds a bare pointer
    LET t == task[LoopThread]
    IN  /\ At(LoopThread, "run")
        /\ queue' = Append(queue, t)
        /\ Goto(LoopThread, "release")
        /\ UNCHANGED <<task, timerVars, clientVars, fileVars, crashed>>
(* pool.run(bind(handleData, type, vptr)): the functor shares the task.    *)
Run ==
    LET t == task[LoopThread]
    IN  /\ At(LoopThread, "run")
        /\ queue' = Append(queue, t)
        /\ refs' = [refs EXCEPT ![t] = @ + 1]
        /\ Goto(LoopThread, "release")
        /\ UNCHANGED <<task, timerVars, handles, curlVars, fileVars, crashed>>

(* Where a thread goes when it is done with a task.                        *)
Rest(th) == IF th = LoopThread THEN "idle" ELSE "take"

(* vptr goes out of scope in handleEvent, or the worker drops the functor: *)
(* whoever holds the last reference destroys the task.                     *)
ReleaseFault(th) ==                            \* looks at the count too early
    LET t == task[th]
    IN  /\ At(th, "release")
        /\ refs' = [refs EXCEPT ![t] = @ - 1]
        /\ IF refs[t] = 0
           THEN Goto(th, "easyCleanup") /\ UNCHANGED task
           ELSE Goto(th, Rest(th)) /\ task' = [task EXCEPT ![th] = NoTask]
        /\ UNCHANGED <<timerVars, queue, handles, curlVars, fileVars, crashed>>
Release(th) ==
    LET t == task[th]
    IN  /\ At(th, "release")
        /\ refs' = [refs EXCEPT ![t] = @ - 1]
        /\ IF refs'[t] = 0
           THEN Goto(th, "easyCleanup") /\ UNCHANGED task
           ELSE Goto(th, Rest(th)) /\ task' = [task EXCEPT ![th] = NoTask]
        /\ UNCHANGED <<timerVars, queue, handles, curlVars, fileVars, crashed>>

EasyCleanup(th) ==
    /\ At(th, "easyCleanup")
    /\ handles' = handles \ {task[th]}
    /\ Goto(th, "cleanupLoad")
    /\ UNCHANGED <<task, timerVars, queue, refs, curlVars, fileVars, crashed>>

CleanupLoad(th) ==
    /\ At(th, "cleanupLoad")
    /\ EnterCurlGlobal(th)
    /\ Goto(th, "cleanupStore")
    /\ UNCHANGED <<task, timerVars, queue, refs, handles, initialized, up,
                   fileVars, crashed>>

(* curl_global_cleanup: does nothing at zero, and tears curl down when the *)
(* count comes to zero.                                                    *)
CleanupStore(th) ==
    /\ At(th, "cleanupStore")
    /\ initialized' = IF loaded[th] = 0 THEN initialized ELSE loaded[th] - 1
    /\ IF loaded[th] = 1
       THEN Goto(th, "tearDown") /\ UNCHANGED task
       ELSE Goto(th, Rest(th)) /\ task' = [task EXCEPT ![th] = NoTask]
    /\ UNCHANGED <<timerVars, queue, refs, handles, loaded, up, overlapped,
                   fileVars, crashed>>

TearDown(th) ==
    /\ At(th, "tearDown")
    /\ up' = FALSE
    /\ task' = [task EXCEPT ![th] = NoTask]
    /\ Goto(th, Rest(th))
    /\ UNCHANGED <<timerVars, queue, refs, handles, initialized, loaded,
                   overlapped, fileVars, crashed>>

-----------------------------------------------------------------------------
(* A worker: handleData, pollState and pollBroadcast.                      *)

(* pollState does nothing (its query is commented out), pollBroadcast asks *)
(* the service for the state of the live.                                  *)
Take(w) ==
    /\ At(w, "take")
    /\ queue # << >>
    /\ task' = [task EXCEPT ![w] = Head(queue)]
    /\ queue' = Tail(queue)
    /\ Goto(w, IF Head(queue) \in rooms THEN "query" ELSE "release")
    /\ UNCHANGED <<timerVars, clientVars, fileVars, crashed>>

(* What HttpGetData brings back, as far as selectLiveInfoByID tells it     *)
(* apart: `oops` stands for a key that is absent, `odd` for a value of     *)
(* another type than the code expects.                                     *)
Answers == [result    : {"ok", "failed"},
            body      : {"empty", "notJson", "scalar", "object"},
            code      : {"0", "nonzero", "oops", "odd"},
            live_info : {"absent", "odd", "1", "other"}]

(* atoi("oops") is 0: an answer without a code counts as a success.        *)
Verdict(a) ==
    IF a.result = "failed" \/ a.body \in {"empty", "scalar"} THEN "skip"
    ELSE IF a.body = "notJson" \/ a.code = "odd" THEN "throw"
    ELSE IF a.code = "nonzero" THEN "skip"
    ELSE IF a.live_info \in {"absent", "odd"} THEN "throw"
    ELSE IF a.live_info = "1" THEN "record" ELSE "skip"

Verdicts == {Verdict(a) : a \in Answers}

(* A room that is not live, or of which nothing is known, is left alone.   *)
SelectLiveInfo(w) ==
    /\ At(w, "query")
    /\ \/ "skip" \in Verdicts /\ Goto(w, "release")
       \/ "record" \in Verdicts /\ Goto(w, "access")
    /\ level' = [level EXCEPT ![w] = 1]
    /\ UNCHANGED <<task, timerVars, queue, clientVars, dirs, files, recorded, lost, passed,
                   pictures, crashed>>

(* The json library throws out of the task, and out of the pool's thread:  *)
(* the process is terminated.                                              *)
ParseThrows(w) ==
    /\ At(w, "query")
    /\ "throw" \in Verdicts
    /\ crashed' = TRUE
    /\ UNCHANGED <<pc, task, timerVars, queue, clientVars, fileVars>>

(* CreateFileDir: a component that exists is passed over ...               *)
NextComponent(w) ==
    IF level[w] = Len(Path)
    THEN /\ passed' = passed \cup {task[w]}
         /\ Goto(w, "openInput")
         /\ UNCHANGED level
    ELSE /\ level' = [level EXCEPT ![w] = @ + 1]
         /\ Goto(w, "access")
         /\ UNCHANGED passed

AccessFault(w) ==                              \* mkdir without looking first
    /\ At(w, "access")
    /\ Goto(w, "mkdir") /\ UNCHANGED <<level, passed>>
    /\ UNCHANGED <<task, timerVars, queue, clientVars, dirs, files, recorded,
                   lost, pictures, crashed>>
Access(w) ==
    /\ At(w, "access")
    /\ IF Path[level[w]] \in dirs
       THEN NextComponent(w)
       ELSE Goto(w, "mkdir") /\ UNCHANGED <<level, passed>>
    /\ UNCHANGED <<task, timerVars, queue, clientVars, dirs, files, recorded,
                   lost, pictures, crashed>>

(* ... and one that does not is made, unless another task has made it by   *)
(* now: then mkdir fails and flvToJpg gives the recording up.              *)
Mkdir(w) ==
    LET dir == Path[level[w]]
    IN  /\ At(w, "mkdir")
        /\ dir \notin dirs
        /\ dirs' = dirs \cup {dir}
        /\ NextComponent(w)
        /\ UNCHANGED <<task, timerVars, queue, clientVars, files, recorded,
                       lost, pictures, crashed>>

MkdirFails(w) ==
    /\ At(w, "mkdir")
    /\ Path[level[w]] \in dirs
    /\ lost' = lost \cup {task[w]}
    /\ Goto(w, "release")
    /\ UNCHANGED <<task, timerVars, queue, clientVars, dirs, files, level,
                   recorded, passed, pictures, crashed>>

(* reciveFlv: nothing is written if the stream cannot be opened ...        *)
OpenInputFails(w) ==
    /\ At(w, "openInput")
    /\ Goto(w, "release")
    /\ UNCHANGED <<task, timerVars, queue, clientVars, fileVars, crashed>>

OpenOutput(w) ==
    /\ At(w, "openInput")
    /\ files' = files \cup {FlvWritten(task[w])}
    /\ Goto(w, "stream")
    /\ UNCHANGED <<task, timerVars, queue, clientVars, dirs, level, recorded, lost, passed,
                   pictures, crashed>>

(* ... it ends after 100 frames or with the stream, or gives up on errors. *)
StreamEnds(w) ==
    /\ At(w, "stream")
    /\ recorded' = recorded \cup {task[w]}
    /\ Goto(w, "toPic")
    /\ UNCHANGED <<task, timerVars, queue, clientVars, dirs, files, level, lost,
                   passed, pictures, crashed>>

StreamFails(w) ==
    /\ At(w, "stream")
    /\ Goto(w, "release")
    /\ UNCHANGED <<task, timerVars, queue, clientVars, fileVars, crashed>>

(* flvToPic opens a file that was never written, and returns; otherwise it *)
(* would save a picture and flvToJpg would remove the flv.                 *)
FlvToPic(w) ==
    LET t == task[w]
    IN  /\ At(w, "toPic")
        /\ IF FlvRead(t) \in files
           THEN pictures' = pictures \cup {t} /\ files' = files \ {FlvRead(t)}
           ELSE UNCHANGED <<pictures, files>>
        /\ Goto(w, "release")
        /\ UNCHANGED <<task, timerVars, queue, clientVars, dirs, level,
                       recorded, lost, passed, crashed>>

-----------------------------------------------------------------------------
Construct == InitLoad \/ InitStore \/ SetUp \/ EasyInit \/ Run
Drop(th) == \/ Release(th) \/ EasyCleanup(th)
            \/ CleanupLoad(th) \/ CleanupStore(th) \/ TearDown(th)
Record(w) == \/ Access(w) \/ Mkdir(w) \/ MkdirFails(w)
             \/ OpenInputFails(w) \/ OpenOutput(w) \/ StreamEnds(w) \/ StreamFails(w)
             \/ FlvToPic(w)
Work(w) == Take(w) \/ SelectLiveInfo(w) \/ ParseThrows(w) \/ Record(w)

Next == \/ \E t \in Tasks : HandleEvent(t)
        \/ Construct
        \/ \E th \in Threads : Drop(th)
        \/ \E w \in Workers : Work(w)

Spec == Init /\ [][Next]_vars

-----------------------------------------------------------------------------
TypeOK ==
    /\ task \in [Threads -> Tasks \cup {NoTask}]
    /\ \A th \in Threads : (task[th] = NoTask) <=> (pc[th] = Rest(th))
    /\ rooms \subseteq fired /\ fired \subseteq Tasks
    /\ queue \in Seq(Tasks)
    /\ refs \in [Tasks -> 0 .. 2]
    /\ handles \subseteq fired
    /\ initialized \in 0 .. Cardinality(Tasks) + 1
    /\ loaded \in [Threads -> 0 .. Cardinality(Tasks) + 1]
    /\ up \in BOOLEAN /\ overlapped \in BOOLEAN /\ crashed \in BOOLEAN
    /\ dirs \subseteq {Path[i] : i \in DOMAIN Path}
    /\ level \in [Workers -> DOMAIN Path]
    /\ recorded \cup lost \cup passed \cup pictures \subseteq rooms

(* A task waiting in the pool or being worked on has not been destroyed,   *)
(* whichever of handleEvent and the worker comes to its end first          *)
(* (pollServer.cpp:67-69, the shared_ptr bound into the functor).          *)
TaskAliveInPool ==
    /\ \A i \in DOMAIN queue : queue[i] \in handles
    /\ \A w \in Workers :
           pc[w] \notin {"take", "cleanupLoad", "cleanupStore", "tearDown"} => task[w] \in handles

(* As long as no two threads have been in curl_global_init or              *)
(* curl_global_cleanup at once, curl stays up for every client there is:   *)
(* no task's cleanup takes it away from another task or from the web       *)
(* service, whose client is never deleted; and when no task is left, each  *)
(* initialisation but that client's has met one cleanup                    *)
(* (LibcurClient.cpp:9 and 140, webserver.cpp:212 and 226).                *)
AtRest == queue = << >> /\ \A th \in Threads : task[th] = NoTask
HandlesInitialized == ~overlapped => up /\ (AtRest => initialized = 1)

(* Tasks that race to create the directories may lose their recording, but *)
(* not all of them: once no task is creating directories, somebody has got *)
(* through (PollBroadcastRoom.cpp:140-146).                                *)
SomebodyGetsThrough ==
    lost # {} /\ (\A w \in Workers : pc[w] \notin {"access", "mkdir"}) => passed # {}

(* Whichever thread drops a task last destroys it: then the task waits     *)
(* nowhere and nobody else has to do with it, nor has it been destroyed    *)
(* before; and no task is left behind when everybody is done               *)
(* (pollServer.cpp:60-88, the shared_ptr and the destructors).             *)
LastDropDestroys ==
    /\ \A th \in Threads : pc[th] = "easyCleanup" =>
           /\ task[th] \in handles
           /\ \A i \in DOMAIN queue : queue[i] # task[th]
           /\ \A other \in Threads \ {th} : task[other] # task[th]
    /\ AtRest => handles = {}

(* README.md:4: a room's stream is recorded as an flv, from which a        *)
(* picture is made.  A task that received its stream and is done with it   *)
(* has left a picture (PollBroadcastRoom.cpp:101-127).                     *)
PictureTaken == \A t \in recorded : t \in handles \/ t \in pictures
=============================================================================
