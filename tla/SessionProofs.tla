--------------------------- MODULE SessionProofs ----------------------------
(***************************************************************************)
(* The desktop session, proved for every set of processes, threads,        *)
(* session names and suspicious entries.                                   *)
(*                                                                         *)
(*   The protocol: the states are of the declared types, and one thread of *)
(*   the process that holds the root lock works at a time.                 *)
(*                                                                         *)
(*   The disk: unredacted Snapshots always lie where recovery removes      *)
(*   them, entries that are no session of the app are never touched, the   *)
(*   first Snapshot of a capture stays until it is given up, and no        *)
(*   evidence is left silently.                                            *)
(*                                                                         *)
(*   The refinement: DesktopSession implements CaptureLifecycle; each step *)
(*   of a thread or a process is a step of the life cycle or invisible to  *)
(*   it.                                                                   *)
(***************************************************************************)
EXTENDS SessionRefinement, TLAPS

TaskSpace == [Instances -> [Threads -> Tasks]]
FileSpace == [Names -> [FileNames -> FileStates]]

-----------------------------------------------------------------------------
(***************************************************************************)
(* What the ways to update a task or a file do.                            *)
(***************************************************************************)

\* A thread is given a task, moves on in it, or loses it: no other thread's
\* task is touched.
LEMMA SetTaskFacts ==
  ASSUME task \in TaskSpace, NEW i \in Instances, NEW t \in Threads, NEW k \in Tasks,
         SetTask(i, t, k)
  PROVE  /\ task' \in TaskSpace
         /\ task'[i][t] = k
         /\ \A j \in Instances, u \in Threads :
              j # i \/ u # t => task'[j][u] = task[j][u]
  BY DEF TaskSpace, SetTask

\* A change of the program counter keeps the task's session and goal.
LEMMA GotoFacts ==
  ASSUME task \in TaskSpace, NEW i \in Instances, NEW t \in Threads, NEW pc \in Points,
         Goto(i, t, pc)
  PROVE  /\ task' \in TaskSpace
         /\ task'[i][t].pc = pc
         /\ task'[i][t].session = task[i][t].session
         /\ task'[i][t].goal = task[i][t].goal
         /\ \A j \in Instances, u \in Threads :
              j # i \/ u # t => task'[j][u] = task[j][u]
<1>1. task[i] \in [Threads -> Tasks] /\ task[i][t] \in Tasks
  BY DEF TaskSpace
<1> DEFINE new == [task[i][t] EXCEPT !.pc = pc]
<1>2. new \in Tasks /\ new.pc = pc /\ new.session = task[i][t].session
       /\ new.goal = task[i][t].goal
  BY <1>1 DEF Tasks
<1>3. SetTask(i, t, new)
  BY DEF Goto
<1> HIDE DEF new
<1> QED
  BY <1>2, <1>3, SetTaskFacts

\* A file changes alone.
LEMMA StoreFacts ==
  ASSUME files \in FileSpace, NEW n, NEW f \in FileNames, NEW v \in FileStates,
         Store(n, f, v)
  PROVE  /\ files' \in FileSpace
         /\ n \in Names => files'[n][f] = v
         /\ n \in Names => \A g \in FileNames : g # f => files'[n][g] = files[n][g]
         /\ \A m \in Names : m # n => files'[m] = files[m]
<1>1. CASE n \in Names
  BY <1>1 DEF Store, FileSpace
<1>2. CASE n \notin Names
  <2>1. files' = files
    BY <1>2 DEF Store, FileSpace
  <2> QED
    BY <1>2, <2>1
<1> QED
  BY <1>1, <1>2

LEMMA IdleFacts ==
  Idle \in Tasks /\ Idle.pc = "idle" /\ Idle.session = None /\ Idle.goal = "none"
  BY DEF Idle, Tasks, Points, Goals

-----------------------------------------------------------------------------
(***************************************************************************)
(* A storage step changes the disk and the program counter of its own      *)
(* thread, and nothing of the protocol between threads and processes.      *)
(***************************************************************************)
StorageFrame(i, t) ==
    /\ dirs' \subseteq Names
    /\ files' \in FileSpace
    /\ task' \in TaskSpace
    /\ discarded' \subseteq Names
    /\ UNCHANGED <<lock, phase, stage, held, todo, told>>
    /\ task[i][t].pc \notin {"idle", "start_failed"}
    /\ task'[i][t].pc \notin {"idle", "mkdir"}
    /\ task'[i][t].goal = task[i][t].goal
    /\ IF task[i][t].pc = "mkdir"
         THEN task'[i][t].pc = "start_failed" \/ task'[i][t].session \in Names
         ELSE task'[i][t].session = task[i][t].session
    /\ \A j \in Instances, u \in Threads : j # i \/ u # t => task'[j][u] = task[j][u]

LEMMA StorageStepFrame ==
  ASSUME TypeOK, NEW i \in Instances, NEW t \in Threads, StorageStep(i, t)
  PROVE  StorageFrame(i, t)
<1> USE DEF procVars, diskVars, historyVars
<1>0. task \in TaskSpace /\ files \in FileSpace /\ dirs \subseteq Names /\ discarded \subseteq Names
  BY DEF TypeOK, TaskSpace, FileSpace
<1>p. /\ "marker_open" \in Points /\ "marker_write" \in Points /\ "undo_dir" \in Points
      /\ "start_failed" \in Points /\ "capture" \in Points /\ "before_open" \in Points
      /\ "before_write" \in Points /\ "started" \in Points /\ "after_open" \in Points
      /\ "after_write" \in Points /\ "read_after" \in Points /\ "drop_after" \in Points
      /\ "finish_failed" \in Points /\ "validate" \in Points /\ "rm_before" \in Points
      /\ "rm_after" \in Points /\ "rm_marker" \in Points /\ "rm_dir" \in Points
      /\ "cleanup_ok" \in Points /\ "cleanup_failed" \in Points
  BY DEF Points
<1>f. /\ "marker" \in FileNames /\ "before" \in FileNames /\ "after" \in FileNames
      /\ "absent" \in FileStates /\ "partial" \in FileStates /\ "complete" \in FileStates
  BY DEF FileNames, FileStates
<1>1. CASE MakeDirectory(i, t)
  <2>1. CASE Goto(i, t, "start_failed") /\ UNCHANGED <<dirs, discarded>>
    <3>1. /\ task' \in TaskSpace
          /\ task'[i][t].pc = "start_failed"
          /\ task'[i][t].goal = task[i][t].goal
          /\ \A j \in Instances, u \in Threads :
               j # i \/ u # t => task'[j][u] = task[j][u]
      BY <1>0, <1>p, <2>1, GotoFacts
    <3> QED
      BY <1>0, <1>1, <2>1, <3>1 DEF MakeDirectory, StorageFrame, At
  <2>2. ASSUME NEW n \in Names \ dirs,
               dirs' = dirs \union {n},
               SetTask(i, t, [task[i][t] EXCEPT !.pc = "marker_open", !.session = n]),
               discarded' = discarded \ {n}
        PROVE  StorageFrame(i, t)
    <3> DEFINE k == [task[i][t] EXCEPT !.pc = "marker_open", !.session = n]
    <3>1. task[i][t] \in Tasks
      BY <1>0 DEF TaskSpace
    <3>2. k \in Tasks /\ k.pc = "marker_open" /\ k.goal = task[i][t].goal /\ k.session = n
      BY <1>p, <3>1 DEF Tasks
    <3> HIDE DEF k
    <3>3. /\ task' \in TaskSpace
          /\ task'[i][t] = k
          /\ \A j \in Instances, u \in Threads :
               j # i \/ u # t => task'[j][u] = task[j][u]
      BY <1>0, <2>2, <3>2, SetTaskFacts DEF k
    <3> QED
      BY <1>0, <1>1, <2>2, <3>2, <3>3 DEF MakeDirectory, StorageFrame, At
  <2> QED
    BY <1>1, <2>1, <2>2 DEF MakeDirectory
<1> DEFINE Edge == {"idle", "start_failed", "mkdir"}
           Working == task[i][t].pc \notin Edge
<1>2. ASSUME NEW pc \in Points, pc \notin {"idle", "mkdir"}, Goto(i, t, pc), Working,
             dirs' \subseteq Names, files' \in FileSpace,
             UNCHANGED <<lock, procVars, historyVars>>
      PROVE  StorageFrame(i, t)
  BY <1>0, <1>2, GotoFacts DEF StorageFrame
<1>3. ASSUME NEW pc \in Points, pc \notin {"idle", "mkdir"}, Goto(i, t, pc), Working,
             UNCHANGED <<dirs, files, lock, procVars, historyVars>>
      PROVE  StorageFrame(i, t)
  BY <1>0, <1>2, <1>3
<1>s. ASSUME NEW f \in FileNames, NEW v \in FileStates, Store(SessionOf(i, t), f, v),
             NEW pc \in Points, pc \notin {"idle", "mkdir"}, Goto(i, t, pc), Working,
             UNCHANGED <<dirs, lock, procVars, historyVars>>
      PROVE  StorageFrame(i, t)
  <2>1. files' \in FileSpace
    BY <1>0, <1>s, StoreFacts
  <2> QED
    BY <1>0, <1>2, <1>s, <2>1
<1>e. ASSUME ErrorPath(i, t), Working,
             UNCHANGED <<dirs, files, lock, procVars, historyVars>>
      PROVE  StorageFrame(i, t)
  BY <1>e, <1>p, <1>3 DEF ErrorPath
<1>4. CASE OpenMarker(i, t)
  BY <1>p, <1>f, <1>3, <1>s, <1>4 DEF OpenMarker, Working, At
<1>5. CASE WriteMarker(i, t)
  BY <1>p, <1>f, <1>3, <1>s, <1>5 DEF WriteMarker, Working, At
<1>6. CASE UndoDirectory(i, t)
  BY <1>0, <1>p, <1>2, <1>6 DEF UndoDirectory, Working, At
<1>7. CASE Capture(i, t)
  BY <1>p, <1>3, <1>e, <1>7 DEF Capture, Working, At
<1>8. CASE WriteSteps(i, t)
  <2>1. ASSUME NEW f \in FileNames, NEW pc, pc \notin Edge, NEW next \in Points, next \notin {"idle", "mkdir"},
               OpenSnapshot(i, t, pc, f, next) \/ WriteSnapshot(i, t, pc, f, next)
        PROVE  StorageFrame(i, t)
    BY <1>f, <1>s, <1>e, <2>1 DEF OpenSnapshot, WriteSnapshot, Working, At
  <2> QED
    BY <1>p, <1>f, <1>8, <2>1 DEF WriteSteps
<1>9. CASE ReadSteps(i, t)
  BY <1>p, <1>3, <1>e, <1>9 DEF ReadSteps, ReadSnapshot, Working, At
<1>10. CASE DropAfter(i, t)
  BY <1>p, <1>f, <1>3, <1>s, <1>10 DEF DropAfter, Working, At
<1>11. CASE ValidateCleanup(i, t)
  BY <1>p, <1>3, <1>11 DEF ValidateCleanup, Working, At
<1>12. CASE RemoveFiles(i, t)
  <2>1. ASSUME NEW f \in FileNames, NEW pc, pc \notin Edge, NEW next \in Points, next \notin {"idle", "mkdir"},
               RemoveFile(i, t, pc, f, next)
        PROVE  StorageFrame(i, t)
    BY <1>p, <1>f, <1>3, <1>s, <2>1 DEF RemoveFile, Working, At
  <2> QED
    BY <1>p, <1>f, <1>12, <2>1 DEF RemoveFiles
<1>13. CASE RemoveDirectory(i, t)
  BY <1>0, <1>p, <1>2, <1>13 DEF RemoveDirectory, Working, At
<1> QED
  BY <1>1, <1>4, <1>5, <1>6, <1>7, <1>8, <1>9, <1>10, <1>11, <1>12, <1>13 DEF StorageStep

-----------------------------------------------------------------------------
(***************************************************************************)
(* The protocol between threads and processes, as an inductive invariant.  *)
(***************************************************************************)

\* A stage that refers to a session has one, and so has every point of a task
\* between create_dir and the end of the command.
SessionInv ==
    /\ \A i \in Instances : stage[i] = "Capturing" => held[i] \in Names
    /\ \A i \in Instances, t \in Threads :
         task[i][t].pc \notin {"idle", "mkdir", "start_failed"} => SessionOf(i, t) \in Names

\* Exactly the owner of the lock recovers and serves; only a serving process has
\* left Ready; and only a stable stage holds a session.
OwnerInv ==
    \A i \in Instances :
        /\ phase[i] \in Owning <=> lock = i
        /\ phase[i] \notin Serving => stage[i] = "Ready"
        /\ stage[i] \notin {"Capturing", "Results"} => held[i] = None

\* A thread that works was admitted by the phase and the stage of its process,
\* and it is the only one of that process.
WorkInv ==
    \A i \in Instances, t \in Threads : Busy(i, t) =>
        /\ \/ task[i][t].goal = "recover" /\ t = Main /\ phase[i] = "recovering"
           \/ /\ task[i][t].goal # "recover"
              /\ phase[i] \in Serving
              /\ stage[i] \in {"Starting", "Finishing"}
        /\ \A u \in Threads : Busy(i, u) => u = t

ProtocolInv == TypeOK /\ SessionInv /\ OwnerInv /\ WorkInv

-----------------------------------------------------------------------------
(***************************************************************************)
(* ProtocolInv is inductive.                                               *)
(***************************************************************************)
LEMMA ProtocolInit == Init => ProtocolInv
<1> SUFFICES ASSUME Init PROVE ProtocolInv
  OBVIOUS
<1>1. SuspiciousContents \union {NoFiles} \subseteq [FileNames -> FileStates]
  BY DEF SuspiciousContents, NoFiles, FileNames, FileStates
<1>2. files \in FileSpace
  BY <1>1 DEF Init, FileSpace
<1>3. \A i \in Instances, t \in Threads : task[i][t] = Idle
  BY DEF Init
<1>4. task \in TaskSpace
  BY IdleFacts DEF Init, TaskSpace
<1>5. TypeOK
  BY <1>2, <1>4 DEF Init, TypeOK, FileSpace, TaskSpace, Names, Phases, Stages
<1>6. SessionInv
  BY <1>3, IdleFacts DEF Init, SessionInv
<1>7. OwnerInv
  BY ConstantsAssumption DEF Init, OwnerInv, Owning, Serving
<1>8. WorkInv
  BY <1>3, IdleFacts DEF WorkInv, Busy, At
<1> QED
  BY <1>5, <1>6, <1>7, <1>8 DEF ProtocolInv

LEMMA StorageProtocol ==
  ASSUME ProtocolInv, NEW i \in Instances, NEW t \in Threads, StorageStep(i, t)
  PROVE  ProtocolInv'
<1>1. StorageFrame(i, t)
  BY StorageStepFrame DEF ProtocolInv
<1>2. TypeOK'
  BY <1>1 DEF ProtocolInv, TypeOK, StorageFrame, FileSpace, TaskSpace
<1>3. SessionInv'
  <2>1. ASSUME NEW j \in Instances, NEW u \in Threads,
               task'[j][u].pc \notin {"idle", "mkdir", "start_failed"}
        PROVE  task'[j][u].session \in Names
    <3>1. CASE j = i /\ u = t
      BY <1>1, <2>1, <3>1 DEF StorageFrame, ProtocolInv, SessionInv, SessionOf
    <3>2. CASE j # i \/ u # t
      <4>1. task'[j][u] = task[j][u]
        BY <1>1, <3>2 DEF StorageFrame
      <4> QED
        BY <2>1, <4>1 DEF ProtocolInv, SessionInv, SessionOf
    <3> QED
      BY <3>1, <3>2
  <2> QED
    BY <1>1, <2>1 DEF StorageFrame, ProtocolInv, SessionInv, SessionOf
<1>4. OwnerInv'
  BY <1>1 DEF StorageFrame, ProtocolInv, OwnerInv
<1>5. WorkInv'
  <2>1. \A j \in Instances, u \in Threads :
          /\ task'[j][u].pc # "idle" => task[j][u].pc # "idle"
          /\ task'[j][u].goal = task[j][u].goal
    BY <1>1 DEF StorageFrame
  <2> QED
    BY <1>1, <2>1 DEF StorageFrame, ProtocolInv, WorkInv, Busy, At
<1> QED
  BY <1>2, <1>3, <1>4, <1>5 DEF ProtocolInv

\* A claim finds a serving process in which no thread works.
LEMMA ClaimProtocol ==
  ASSUME ProtocolInv, NEW i \in Instances, NEW t \in Threads,
         NEW to \in {"Starting", "Finishing"}, NEW n \in Names \union {None},
         NEW pc \in {"mkdir", "read_before", "validate"}, pc = "mkdir" \/ n \in Names,
         NEW goal \in Goals \ {"none", "recover"},
         stage[i] \in {"Ready", "Capturing", "Results"},
         Claim(i, t, to, n, pc, goal),
         UNCHANGED <<diskVars, phase, todo, told>>, discarded' \subseteq Names
  PROVE  ProtocolInv'
<1> DEFINE k == [pc |-> pc, session |-> n, goal |-> goal]
<1>1. /\ k \in Tasks /\ k.pc = pc /\ k.pc # "idle" /\ k.session = n
      /\ k.goal = goal /\ k.goal # "recover"
  BY DEF Tasks, Points
<1> HIDE DEF k
<1>2. task \in TaskSpace /\ SetTask(i, t, k)
  BY DEF ProtocolInv, TypeOK, TaskSpace, Claim, k
<1>3. /\ task' \in TaskSpace
      /\ task'[i][t] = k
      /\ \A j \in Instances, u \in Threads : j # i \/ u # t => task'[j][u] = task[j][u]
  BY <1>1, <1>2, SetTaskFacts
<1>4. \A u \in Threads : task[i][u].pc = "idle"
  BY DEF ProtocolInv, WorkInv, Claim, Busy, At, Serving
<1>5. /\ stage' = [stage EXCEPT ![i] = to] /\ held' = [held EXCEPT ![i] = None]
      /\ phase[i] \in Serving
      /\ stage \in [Instances -> Stages] /\ held \in [Instances -> Names \union {None}]
      /\ UNCHANGED <<dirs, files, lock, phase, todo, told>>
  BY DEF Claim, ProtocolInv, TypeOK, diskVars
<1>6. TypeOK'
  <2>1. stage' \in [Instances -> Stages] /\ held' \in [Instances -> Names \union {None}]
    BY <1>5 DEF Stages
  <2> QED
    BY <1>3, <1>5, <2>1 DEF ProtocolInv, TypeOK, TaskSpace
<1>7. SessionInv'
  <2>1. \A j \in Instances : stage'[j] = "Capturing" => held'[j] \in Names
    BY <1>5 DEF ProtocolInv, SessionInv
  <2>2. \A j \in Instances, u \in Threads :
          task'[j][u].pc \notin {"idle", "mkdir", "start_failed"} => task'[j][u].session \in Names
    BY <1>1, <1>3 DEF ProtocolInv, SessionInv, SessionOf
  <2> QED
    BY <2>1, <2>2 DEF SessionInv, SessionOf
<1>8. OwnerInv'
  BY <1>5 DEF ProtocolInv, OwnerInv
<1>9. WorkInv'
  <2>1. ASSUME NEW j \in Instances, NEW u \in Threads, task'[j][u].pc # "idle"
        PROVE  /\ \/ task'[j][u].goal = "recover" /\ u = Main /\ phase'[j] = "recovering"
                  \/ /\ task'[j][u].goal # "recover"
                     /\ phase'[j] \in Serving
                     /\ stage'[j] \in {"Starting", "Finishing"}
               /\ \A v \in Threads : task'[j][v].pc # "idle" => v = u
    <3>1. CASE j = i
      <4>1. u = t /\ \A v \in Threads : task'[j][v].pc # "idle" => v = t
        BY <1>3, <1>4, <2>1, <3>1
      <4> QED
        BY <1>1, <1>3, <1>5, <3>1, <4>1
    <3>2. CASE j # i
      <4>1. \A v \in Threads : task'[j][v] = task[j][v]
        BY <1>3, <3>2
      <4> QED
        BY <1>5, <2>1, <3>2, <4>1 DEF ProtocolInv, WorkInv, Busy, At
    <3> QED
      BY <3>1, <3>2
  <2> QED
    BY <2>1 DEF WorkInv, Busy, At
<1> QED
  BY <1>6, <1>7, <1>8, <1>9 DEF ProtocolInv

\* What a command publishes leaves its process without a working thread.
LEMMA PublishProtocol ==
  ASSUME ProtocolInv, NEW i \in Instances, NEW t \in Threads,
         NEW to \in {"Ready", "Capturing", "Results"}, NEW n \in Names \union {None},
         to = "Ready" => n = None, to = "Capturing" => n \in Names,
         Busy(i, t), task[i][t].goal # "recover",
         Publish(i, t, to, n),
         phase' = phase \/ phase' = [phase EXCEPT ![i] = "stopped"],
         told' \in [Instances -> SUBSET Names]
  PROVE  ProtocolInv'
<1>1. task \in TaskSpace /\ SetTask(i, t, Idle)
  BY DEF ProtocolInv, TypeOK, TaskSpace, Publish, EndTask
<1>2. /\ task' \in TaskSpace
      /\ task'[i][t] = Idle
      /\ \A j \in Instances, u \in Threads : j # i \/ u # t => task'[j][u] = task[j][u]
  BY <1>1, IdleFacts, SetTaskFacts
<1>3. \A u \in Threads : task'[i][u].pc = "idle"
  BY <1>2, IdleFacts DEF ProtocolInv, WorkInv, Busy, At
<1>4. /\ stage' = [stage EXCEPT ![i] = to] /\ held' = [held EXCEPT ![i] = n]
      /\ phase[i] \in Serving
      /\ stage \in [Instances -> Stages] /\ held \in [Instances -> Names \union {None}]
      /\ phase \in [Instances -> Phases]
      /\ UNCHANGED <<dirs, files, lock, todo, discarded>>
  BY DEF Publish, ProtocolInv, TypeOK, diskVars, WorkInv
<1>5. /\ phase'[i] \in Serving
      /\ phase'[i] \in Owning <=> phase[i] \in Owning
      /\ \A j \in Instances : j # i => phase'[j] = phase[j]
      /\ phase' \in [Instances -> Phases]
  BY <1>4 DEF Serving, Owning, Phases
<1>6. TypeOK'
  <2>1. stage' \in [Instances -> Stages] /\ held' \in [Instances -> Names \union {None}]
    BY <1>4 DEF Stages
  <2> QED
    BY <1>2, <1>4, <1>5, <2>1 DEF ProtocolInv, TypeOK, TaskSpace
<1>7. SessionInv'
  <2>1. \A j \in Instances : stage'[j] = "Capturing" => held'[j] \in Names
    BY <1>4 DEF ProtocolInv, SessionInv
  <2>2. \A j \in Instances, u \in Threads :
          task'[j][u].pc \notin {"idle", "mkdir", "start_failed"} => task'[j][u].session \in Names
    BY <1>2, IdleFacts DEF ProtocolInv, SessionInv, SessionOf
  <2> QED
    BY <2>1, <2>2 DEF SessionInv, SessionOf
<1>8. OwnerInv'
  BY <1>4, <1>5 DEF ProtocolInv, OwnerInv
<1>9. WorkInv'
  <2>1. ASSUME NEW j \in Instances, NEW u \in Threads, task'[j][u].pc # "idle"
        PROVE  /\ \/ task'[j][u].goal = "recover" /\ u = Main /\ phase'[j] = "recovering"
                  \/ /\ task'[j][u].goal # "recover"
                     /\ phase'[j] \in Serving
                     /\ stage'[j] \in {"Starting", "Finishing"}
               /\ \A v \in Threads : task'[j][v].pc # "idle" => v = u
    <3>1. j # i /\ \A v \in Threads : task'[j][v] = task[j][v]
      BY <1>2, <1>3, <2>1
    <3> QED
      BY <1>4, <1>5, <2>1, <3>1 DEF ProtocolInv, WorkInv, Busy, At
  <2> QED
    BY <2>1 DEF WorkInv, Busy, At
<1> QED
  BY <1>6, <1>7, <1>8, <1>9 DEF ProtocolInv

-----------------------------------------------------------------------------
LEMMA PublishStepProtocol ==
  ASSUME ProtocolInv, NEW i \in Instances, NEW t \in Threads, PublishStep(i, t)
  PROVE  ProtocolInv'
<1> USE DEF At
<1>0. /\ task[i][t].pc \notin {"idle", "mkdir", "start_failed"} => SessionOf(i, t) \in Names
      /\ told \in [Instances -> SUBSET Names]
  BY DEF ProtocolInv, SessionInv, TypeOK
<1>1. ASSUME SessionOf(i, t) \in Names, Report(i, SessionOf(i, t))
      PROVE  told' \in [Instances -> SUBSET Names]
  BY <1>0, <1>1 DEF Report
<1>2. CASE StartSucceeds(i, t)
  BY <1>0, <1>2, PublishProtocol DEF StartSucceeds, Busy
<1>3. CASE StartFails(i, t)
  <2>1. Publish(i, t, "Ready", None) /\ Busy(i, t) /\ UNCHANGED phase
        /\ task[i][t].goal # "recover"
    BY <1>3 DEF StartFails, Busy
  <2>2. told' \in [Instances -> SUBSET Names]
    BY <1>0, <1>1, <1>3 DEF StartFails
  <2> QED
    BY <2>1, <2>2, PublishProtocol
<1>4. CASE FinishSucceeds(i, t)
  <2>1. Busy(i, t) /\ UNCHANGED <<phase, told>> /\ task[i][t].goal # "recover"
        /\ SessionOf(i, t) \in Names
    BY <1>0, <1>4 DEF FinishSucceeds, Busy
  <2>2. Publish(i, t, "Results", SessionOf(i, t)) \/ Publish(i, t, "Results", None)
    BY <1>4 DEF FinishSucceeds
  <2> QED
    BY <1>0, <2>1, <2>2, PublishProtocol
<1>5. CASE FinishFails(i, t)
  BY <1>0, <1>5, PublishProtocol DEF FinishFails, Busy
<1>6. CASE CancelEnds(i, t)
  <2>1. /\ Busy(i, t) /\ UNCHANGED told /\ task[i][t].goal # "recover"
        /\ SessionOf(i, t) \in Names
        /\ phase' = phase \/ phase' = [phase EXCEPT ![i] = "stopped"]
    BY <1>0, <1>6 DEF CancelEnds, Busy
  <2>2. \/ Publish(i, t, "Ready", None)
        \/ Publish(i, t, "Capturing", SessionOf(i, t))
        \/ Publish(i, t, "Results", SessionOf(i, t))
    BY <1>6 DEF CancelEnds
  <2> QED
    BY <1>0, <2>1, <2>2, PublishProtocol
<1> QED
  BY <1>2, <1>3, <1>4, <1>5, <1>6 DEF PublishStep

LEMMA CancelCommandProtocol ==
  ASSUME ProtocolInv, NEW i \in Instances, NEW t \in Threads, CancelCommand(i, t)
  PROVE  ProtocolInv'
<1>1. CASE CancelCapturing(i, t)
  <2>1. /\ held[i] \in Names /\ discarded' \subseteq Names
        /\ stage[i] = "Capturing"
        /\ Claim(i, t, "Finishing", held[i], "validate", "cancel")
        /\ UNCHANGED <<diskVars, phase, todo, told>>
    BY <1>1 DEF CancelCapturing, ProtocolInv, TypeOK, SessionInv
  <2> QED
    BY <2>1, ClaimProtocol DEF Goals
<1>2. CASE CancelResults(i, t)
  <2>1. /\ held[i] \in Names /\ discarded' \subseteq Names
        /\ stage[i] = "Results"
        /\ Claim(i, t, "Finishing", held[i], "validate", "discard")
        /\ UNCHANGED <<diskVars, phase, todo, told>>
    BY <1>2 DEF CancelResults, ProtocolInv, TypeOK, historyVars
  <2> QED
    BY <2>1, ClaimProtocol DEF Goals
<1> QED
  BY <1>1, <1>2 DEF CancelCommand

\* A step that leaves every task as it is, and in which a process without work
\* moves on.
LEMMA QuietProtocol ==
  ASSUME ProtocolInv, TypeOK', OwnerInv', UNCHANGED task, NEW i \in Instances,
         (\A t \in Threads : ~Busy(i, t)) \/ (phase'[i] \in Serving /\ phase[i] \in Serving),
         stage'[i] = stage[i] \/ stage[i] \notin {"Starting", "Finishing"},
         stage'[i] = "Capturing" => stage[i] = "Capturing" /\ held'[i] = held[i],
         \A j \in Instances : j # i =>
            phase'[j] = phase[j] /\ stage'[j] = stage[j] /\ held'[j] = held[j]
  PROVE  ProtocolInv'
<1>1. SessionInv'
  BY DEF ProtocolInv, SessionInv, SessionOf
<1>2. WorkInv'
  <2>1. ASSUME NEW j \in Instances, NEW t \in Threads, task[j][t].pc # "idle"
        PROVE  /\ \/ task[j][t].goal = "recover" /\ t = Main /\ phase'[j] = "recovering"
                  \/ /\ task[j][t].goal # "recover"
                     /\ phase'[j] \in Serving
                     /\ stage'[j] \in {"Starting", "Finishing"}
               /\ \A u \in Threads : task[j][u].pc # "idle" => u = t
    BY <2>1 DEF ProtocolInv, WorkInv, Busy, At, Serving
  <2> QED
    BY <2>1 DEF WorkInv, Busy, At
<1> QED
  BY <1>1, <1>2 DEF ProtocolInv

LEMMA UserCommandProtocol ==
  ASSUME ProtocolInv, NEW i \in Instances, NEW t \in Threads, UserCommand(i, t)
  PROVE  ProtocolInv'
<1>1. CASE StartCommand(i, t)
  <2>1. /\ discarded' \subseteq Names
        /\ stage[i] = "Ready"
        /\ Claim(i, t, "Starting", None, "mkdir", "start")
        /\ UNCHANGED <<diskVars, phase, todo, told>>
    BY <1>1 DEF StartCommand, ProtocolInv, TypeOK, historyVars
  <2> QED
    BY <2>1, ClaimProtocol DEF Goals
<1>2. CASE FinishCommand(i, t)
  <2>1. /\ held[i] \in Names /\ discarded' \subseteq Names
        /\ stage[i] = "Capturing"
        /\ Claim(i, t, "Finishing", held[i], "read_before", "finish")
        /\ UNCHANGED <<diskVars, phase, todo, told>>
    BY <1>2 DEF FinishCommand, ProtocolInv, TypeOK, SessionInv, historyVars
  <2> QED
    BY <2>1, ClaimProtocol DEF Goals
<1>3. CASE CancelCommand(i, t)
  BY <1>3, CancelCommandProtocol
<1>4. CASE LeaveResults(i, t)
  <2>1. /\ stage[i] = "Results" /\ held[i] = None /\ phase[i] \in Serving
        /\ stage' = [stage EXCEPT ![i] = "Ready"]
        /\ UNCHANGED <<dirs, files, lock, phase, held, todo, task, told, discarded>>
    BY <1>4 DEF LeaveResults, diskVars, historyVars
  <2>2. TypeOK'
    BY <2>1 DEF ProtocolInv, TypeOK, Stages
  <2>3. stage \in [Instances -> Stages]
    BY DEF ProtocolInv, TypeOK
  <2>4. OwnerInv'
    BY <2>1, <2>3 DEF ProtocolInv, OwnerInv
  <2> QED
    BY <2>1, <2>2, <2>3, <2>4, QuietProtocol DEF Busy, At
<1> QED
  BY <1>1, <1>2, <1>3, <1>4 DEF UserCommand

\* The end of a process, by its own exit or a crash.
LEMMA ProcessGoneProtocol ==
  ASSUME ProtocolInv, NEW i \in Instances, ProcessGone(i)
  PROVE  ProtocolInv'
<1>1. task \in TaskSpace /\ task' = [task EXCEPT ![i] = [t \in Threads |-> Idle]]
  BY DEF ProtocolInv, TypeOK, TaskSpace, ProcessGone
<1>2. /\ task' \in TaskSpace
      /\ \A u \in Threads : task'[i][u] = Idle
      /\ \A j \in Instances, u \in Threads : j # i => task'[j][u] = task[j][u]
  BY <1>1, IdleFacts DEF TaskSpace
<1>3. /\ phase' = [phase EXCEPT ![i] = "down"] /\ stage' = [stage EXCEPT ![i] = "Ready"]
      /\ held' = [held EXCEPT ![i] = None] /\ todo' = [todo EXCEPT ![i] = {}]
      /\ told' = [told EXCEPT ![i] = {}] /\ lock' = IF lock = i THEN None ELSE lock
      /\ UNCHANGED <<dirs, files, discarded>>
      /\ phase \in [Instances -> Phases] /\ stage \in [Instances -> Stages]
      /\ held \in [Instances -> Names \union {None}]
      /\ todo \in [Instances -> SUBSET Names] /\ told \in [Instances -> SUBSET Names]
      /\ lock \in Instances \union {None}
  BY DEF ProcessGone, ProtocolInv, TypeOK
<1>4. TypeOK'
  <2>1. phase' \in [Instances -> Phases] /\ stage' \in [Instances -> Stages]
    BY <1>3 DEF Phases, Stages
  <2>2. /\ held' \in [Instances -> Names \union {None}]
        /\ todo' \in [Instances -> SUBSET Names] /\ told' \in [Instances -> SUBSET Names]
        /\ lock' \in Instances \union {None}
    BY <1>3
  <2> QED
    BY <1>2, <1>3, <2>1, <2>2 DEF ProtocolInv, TypeOK, TaskSpace
<1>5. SessionInv'
  <2>1. \A j \in Instances : stage'[j] = "Capturing" => held'[j] \in Names
    BY <1>3 DEF ProtocolInv, SessionInv
  <2>2. \A j \in Instances, u \in Threads :
          task'[j][u].pc \notin {"idle", "mkdir", "start_failed"} => task'[j][u].session \in Names
    BY <1>2, IdleFacts DEF ProtocolInv, SessionInv, SessionOf
  <2> QED
    BY <2>1, <2>2 DEF SessionInv, SessionOf
<1>6. OwnerInv'
  BY <1>3, ConstantsAssumption DEF ProtocolInv, OwnerInv, Owning, Serving
<1>7. WorkInv'
  <2>1. ASSUME NEW j \in Instances, NEW u \in Threads, task'[j][u].pc # "idle"
        PROVE  /\ \/ task'[j][u].goal = "recover" /\ u = Main /\ phase'[j] = "recovering"
                  \/ /\ task'[j][u].goal # "recover"
                     /\ phase'[j] \in Serving
                     /\ stage'[j] \in {"Starting", "Finishing"}
               /\ \A v \in Threads : task'[j][v].pc # "idle" => v = u
    <3>1. j # i /\ \A v \in Threads : task'[j][v] = task[j][v]
      BY <1>2, <2>1, IdleFacts
    <3> QED
      BY <1>3, <2>1, <3>1 DEF ProtocolInv, WorkInv, Busy, At
  <2> QED
    BY <2>1 DEF WorkInv, Busy, At
<1> QED
  BY <1>4, <1>5, <1>6, <1>7 DEF ProtocolInv

\* Startup recovery: one entry begins, or ends.
LEMMA RecoverEntryProtocol ==
  ASSUME ProtocolInv, NEW i \in Instances, RecoverEntry(i)
  PROVE  ProtocolInv'
<1>1. PICK n \in todo[i] :
        SetTask(i, Main, [pc |-> "validate", session |-> n, goal |-> "recover"])
  BY DEF RecoverEntry
<1> DEFINE k == [pc |-> "validate", session |-> n, goal |-> "recover"]
<1>2. n \in Names /\ Main \in Threads
  BY <1>1 DEF ProtocolInv, TypeOK, Threads
<1>3. /\ k \in Tasks /\ k.pc = "validate" /\ k.session = n /\ k.goal = "recover"
      /\ SetTask(i, Main, k)
  BY <1>1, <1>2 DEF Tasks, Points, Goals
<1> HIDE DEF k
<1>4. /\ task' \in TaskSpace
      /\ task'[i][Main] = k
      /\ \A j \in Instances, u \in Threads : j # i \/ u # Main => task'[j][u] = task[j][u]
  <2>1. task \in TaskSpace
    BY DEF ProtocolInv, TypeOK, TaskSpace
  <2> QED
    BY <1>2, <1>3, <2>1, SetTaskFacts
<1>5. /\ phase[i] = "recovering"
      /\ UNCHANGED <<dirs, files, lock, phase, stage, held, todo, told, discarded>>
  BY DEF RecoverEntry, diskVars, procVars, historyVars
<1>6. \A u \in Threads : task[i][u].pc = "idle"
  BY <1>5 DEF RecoverEntry, ProtocolInv, WorkInv, Busy, At, Serving
<1>7. TypeOK'
  BY <1>4, <1>5 DEF ProtocolInv, TypeOK, TaskSpace
<1>8. SessionInv'
  BY <1>2, <1>3, <1>4, <1>5 DEF ProtocolInv, SessionInv, SessionOf
<1>9. OwnerInv'
  BY <1>5 DEF ProtocolInv, OwnerInv
<1>10. WorkInv'
  <2>1. ASSUME NEW j \in Instances, NEW u \in Threads, task'[j][u].pc # "idle"
        PROVE  /\ \/ task'[j][u].goal = "recover" /\ u = Main /\ phase[j] = "recovering"
                  \/ /\ task'[j][u].goal # "recover"
                     /\ phase[j] \in Serving
                     /\ stage[j] \in {"Starting", "Finishing"}
               /\ \A v \in Threads : task'[j][v].pc # "idle" => v = u
    <3>1. CASE j = i
      <4>1. u = Main /\ \A v \in Threads : task'[j][v].pc # "idle" => v = Main
        BY <1>4, <1>6, <2>1, <3>1
      <4> QED
        BY <1>3, <1>4, <1>5, <3>1, <4>1
    <3>2. CASE j # i
      <4>1. \A v \in Threads : task'[j][v] = task[j][v]
        BY <1>4, <3>2
      <4> QED
        BY <2>1, <4>1 DEF ProtocolInv, WorkInv, Busy, At
    <3> QED
      BY <3>1, <3>2
  <2> QED
    BY <1>5, <2>1 DEF WorkInv, Busy, At
<1> QED
  BY <1>7, <1>8, <1>9, <1>10 DEF ProtocolInv

LEMMA RecoverEntryEndsProtocol ==
  ASSUME ProtocolInv, NEW i \in Instances, RecoverEntryEnds(i)
  PROVE  ProtocolInv'
<1>1. Main \in Threads /\ task \in TaskSpace /\ SetTask(i, Main, Idle)
  BY DEF ProtocolInv, TypeOK, TaskSpace, Threads, RecoverEntryEnds, EndTask
<1>2. /\ task' \in TaskSpace
      /\ task'[i][Main] = Idle
      /\ \A j \in Instances, u \in Threads : j # i \/ u # Main => task'[j][u] = task[j][u]
  BY <1>1, IdleFacts, SetTaskFacts
<1>3. UNCHANGED <<dirs, files, lock, phase, stage, held, discarded>>
  BY DEF RecoverEntryEnds, diskVars
<1>4. SessionOf(i, Main) \in Names
  BY <1>1 DEF RecoverEntryEnds, ProtocolInv, SessionInv
<1>5. /\ todo' \in [Instances -> SUBSET Names]
      /\ told' \in [Instances -> SUBSET Names]
  BY <1>4 DEF RecoverEntryEnds, Report, ProtocolInv, TypeOK
<1>6. TypeOK'
  BY <1>2, <1>3, <1>5 DEF ProtocolInv, TypeOK, TaskSpace
<1>7. SessionInv'
  BY <1>2, <1>3, IdleFacts DEF ProtocolInv, SessionInv, SessionOf
<1>8. OwnerInv'
  BY <1>3 DEF ProtocolInv, OwnerInv
<1>9. WorkInv'
  <2>1. \A j \in Instances, u \in Threads :
          task'[j][u].pc # "idle" => task'[j][u] = task[j][u]
    BY <1>1, <1>2, IdleFacts
  <2> QED
    BY <1>3, <2>1 DEF ProtocolInv, WorkInv, Busy, At
<1> QED
  BY <1>6, <1>7, <1>8, <1>9 DEF ProtocolInv

LEMMA PhaseStepProtocol ==
  ASSUME ProtocolInv, NEW i \in Instances,
         \/ Launch(i) \/ AcquireLock(i) \/ RecoveryEnds(i) \/ RecoveryAborts(i)
         \/ ExitRequested(i) \/ ExitWithoutCleanup(i)
  PROVE  ProtocolInv'
<1> USE DEF diskVars, procVars, historyVars
<1>0. /\ dirs \subseteq Names /\ lock \in Instances \union {None}
      /\ phase \in [Instances -> Phases] /\ stage \in [Instances -> Stages]
      /\ todo \in [Instances -> SUBSET Names] /\ told \in [Instances -> SUBSET Names]
      /\ Main \in Threads
  BY DEF ProtocolInv, TypeOK, Threads
<1>w. phase[i] \notin Serving =>
        \A t \in Threads : Busy(i, t) => t = Main /\ phase[i] = "recovering"
  BY DEF ProtocolInv, WorkInv
<1>1. CASE Launch(i)
  <2>1. TypeOK'
    BY <1>0, <1>1 DEF ProtocolInv, TypeOK, Launch, Phases
  <2>2. OwnerInv'
    BY <1>0, <1>1 DEF ProtocolInv, OwnerInv, Launch, Owning, Serving
  <2>3. \A t \in Threads : ~Busy(i, t)
    BY <1>1, <1>w DEF Launch, Serving, Busy
  <2>4. /\ UNCHANGED <<task, stage, held>>
        /\ \A j \in Instances : j # i => phase'[j] = phase[j]
    BY <1>0, <1>1 DEF Launch
  <2> QED
    BY <2>1, <2>2, <2>3, <2>4, QuietProtocol DEF Busy, At
<1>2. CASE AcquireLock(i)
  <2>1. TypeOK'
    BY <1>0, <1>2 DEF ProtocolInv, TypeOK, AcquireLock, Phases
  <2>2. OwnerInv'
    BY <1>0, <1>2, ConstantsAssumption DEF ProtocolInv, OwnerInv, AcquireLock, Owning, Serving
  <2>3. \A t \in Threads : ~Busy(i, t)
    BY <1>2, <1>w DEF AcquireLock, Serving, Busy
  <2>4. /\ UNCHANGED <<task, stage, held>>
        /\ \A j \in Instances : j # i => phase'[j] = phase[j]
    BY <1>0, <1>2 DEF AcquireLock
  <2> QED
    BY <2>1, <2>2, <2>3, <2>4, QuietProtocol DEF Busy, At
<1>3. CASE RecoveryEnds(i)
  <2>1. TypeOK'
    BY <1>0, <1>3 DEF ProtocolInv, TypeOK, RecoveryEnds, Phases
  <2>2. OwnerInv'
    BY <1>0, <1>3 DEF ProtocolInv, OwnerInv, RecoveryEnds, Owning, Serving
  <2>3. \A t \in Threads : ~Busy(i, t)
    BY <1>3, <1>w DEF RecoveryEnds, Serving, Busy
  <2>4. /\ UNCHANGED <<task, stage, held>>
        /\ \A j \in Instances : j # i => phase'[j] = phase[j]
    BY <1>0, <1>3 DEF RecoveryEnds
  <2> QED
    BY <2>1, <2>2, <2>3, <2>4, QuietProtocol DEF Busy, At
<1>4. CASE RecoveryAborts(i)
  <2>1. TypeOK'
    BY <1>0, <1>4 DEF ProtocolInv, TypeOK, RecoveryAborts, Phases
  <2>2. OwnerInv'
    BY <1>0, <1>4, ConstantsAssumption DEF ProtocolInv, OwnerInv, RecoveryAborts, Owning, Serving
  <2>3. \A t \in Threads : ~Busy(i, t)
    BY <1>4, <1>w DEF RecoveryAborts, Serving, Busy
  <2>4. /\ UNCHANGED <<task, stage, held>>
        /\ \A j \in Instances : j # i => phase'[j] = phase[j]
    BY <1>0, <1>4 DEF RecoveryAborts
  <2> QED
    BY <2>1, <2>2, <2>3, <2>4, QuietProtocol DEF Busy, At
<1>5. CASE ExitRequested(i)
  <2>0. phase'[i] \in {"stopping", "stopped"} /\ phase[i] = "up"
        /\ \A j \in Instances : j # i => phase'[j] = phase[j]
    BY <1>0, <1>5 DEF ExitRequested
  <2>1. TypeOK'
    BY <1>0, <1>5 DEF ProtocolInv, TypeOK, ExitRequested, Phases
  <2>2. OwnerInv'
    BY <1>5, <2>0 DEF ProtocolInv, OwnerInv, ExitRequested, Owning, Serving
  <2> QED
    BY <1>5, <2>0, <2>1, <2>2, QuietProtocol DEF ExitRequested, Serving
<1>6. CASE ExitWithoutCleanup(i)
  <2>0. phase'[i] = "stopped" /\ phase[i] = "stopping"
        /\ \A j \in Instances : j # i => phase'[j] = phase[j] /\ stage'[j] = stage[j]
        /\ \/ stage' = stage
           \/ stage[i] = "Results" /\ held[i] = None /\ stage'[i] = "Ready"
    BY <1>0, <1>6 DEF ExitWithoutCleanup
  <2>1. TypeOK'
    BY <1>0, <1>6 DEF ProtocolInv, TypeOK, ExitWithoutCleanup, Phases, Stages
  <2>2. OwnerInv'
    BY <1>6, <2>0 DEF ProtocolInv, OwnerInv, ExitWithoutCleanup, Owning, Serving
  <2> QED
    BY <1>6, <2>0, <2>1, <2>2, QuietProtocol DEF ExitWithoutCleanup, Serving
<1> QED
  BY <1>1, <1>2, <1>3, <1>4, <1>5, <1>6

\* Every step keeps the protocol.
LEMMA ProtocolStep == ProtocolInv /\ [Next]_vars => ProtocolInv'
<1> SUFFICES ASSUME ProtocolInv, [Next]_vars PROVE ProtocolInv'
  OBVIOUS
<1>1. CASE UNCHANGED vars
  BY <1>1 DEF vars, ProtocolInv, TypeOK, SessionInv, OwnerInv, WorkInv, Busy, At, SessionOf
<1>2. ASSUME NEW i \in Instances, NEW t \in Threads, ThreadStep(i, t) \/ UserCommand(i, t)
      PROVE  ProtocolInv'
  BY <1>2, StorageProtocol, PublishStepProtocol, UserCommandProtocol DEF ThreadStep
<1>3. ASSUME NEW i \in Instances, ProcessStep(i)
      PROVE  ProtocolInv'
  <2>1. CASE ExitCancel(i)
    BY <2>1, CancelCommandProtocol DEF ExitCancel, Threads
  <2>2. CASE RecoverEntry(i) \/ RecoverEntryEnds(i) \/ Terminate(i)
    BY <2>2, RecoverEntryProtocol, RecoverEntryEndsProtocol, ProcessGoneProtocol DEF Terminate
  <2> QED
    BY <1>3, <2>1, <2>2, PhaseStepProtocol DEF ProcessStep
<1>4. ASSUME NEW i \in Instances,
             Launch(i) \/ RecoveryAborts(i) \/ ExitRequested(i) \/ Crash(i)
      PROVE  ProtocolInv'
  BY <1>4, PhaseStepProtocol, ProcessGoneProtocol DEF Crash
<1> QED
  BY <1>1, <1>2, <1>3, <1>4 DEF Next

LEMMA ProtocolInvariant == Spec => []ProtocolInv
  BY ProtocolInit, ProtocolStep, PTL DEF Spec

\* The states of the specification are the ones the variables are declared for
\* (SessionService of session.rs and the files of storage.rs).
THEOREM TypeCorrect == Spec => []TypeOK
<1>1. ProtocolInv => TypeOK
  BY DEF ProtocolInv
<1> QED
  BY <1>1, ProtocolInvariant, PTL

\* For every number of processes and threads, one thread at a time works on the
\* session root, in the process that holds its lock, while no stable state refers
\* to a session (the claims of session.rs and the root lock of storage.rs).
THEOREM OwnershipExclusive == Spec => []ExclusiveOwner
<1>1. ProtocolInv => ExclusiveOwner
  <2> SUFFICES ASSUME ProtocolInv PROVE ExclusiveOwner
    OBVIOUS
  <2>1. ASSUME NEW i \in Instances, NEW t \in Threads, Busy(i, t)
        PROVE  lock = i /\ held[i] = None
    BY <2>1 DEF ProtocolInv, OwnerInv, WorkInv, Owning, Serving
  <2>2. ASSUME NEW i \in Instances, held[i] # None
        PROVE  lock = i
    BY <2>2 DEF ProtocolInv, OwnerInv, Owning, Serving
  <2>3. ASSUME NEW i \in Instances, NEW t \in Threads, Busy(i, t),
               NEW j \in Instances, NEW u \in Threads, Busy(j, u)
        PROVE  j = i /\ u = t
    <3>1. j = i
      BY <2>1, <2>3
    <3> QED
      BY <2>3, <3>1 DEF ProtocolInv, WorkInv
  <2> QED
    BY <2>1, <2>2, <2>3 DEF ExclusiveOwner
<1> QED
  BY <1>1, ProtocolInvariant, PTL

-----------------------------------------------------------------------------
(***************************************************************************)
(* The disk.                                                               *)
(***************************************************************************)

\* Entries that are no session of the app are there and would be refused; what
\* the app has not created has no files, and what it created no foreign ones.
DiskInv ==
    /\ Suspicious \subseteq dirs
    /\ \A n \in Suspicious : ~(Verified(n) /\ Allowlisted(n))
    /\ \A n \in Sessions : Allowlisted(n)
    /\ \A n \in Names \ dirs : files[n] = NoFiles
    /\ EvidenceRecoverable

\* Only recovery ever looks at an entry that is no session of the app.
OwnSessionInv ==
    /\ \A i \in Instances : held[i] \in Sessions \union {None}
    /\ \A i \in Instances, t \in Threads :
         task[i][t].goal # "recover" => SessionOf(i, t) \in Sessions \union {None}

\* What a thread at point pc with session n may rely on: how far the directory
\* is built, or how far it is taken down.
PointOK(pc, n) ==
    /\ n \in Suspicious => pc \in {"idle", "mkdir", "validate", "cleanup_failed"}
    /\ pc = "marker_open" => files[n] = NoFiles
    /\ pc \in {"marker_open", "marker_write", "rm_before", "rm_after", "rm_marker", "rm_dir"} =>
         n \in dirs
    /\ pc \in {"marker_write", "undo_dir", "rm_marker", "rm_dir"} => ~Evidence(n)
    /\ pc = "rm_after" => files[n]["before"] = "absent"
    /\ pc \in {"before_write", "after_write"} => Verified(n)

PointInv ==
    \A i \in Instances, t \in Threads :
        /\ task[i][t].pc \in {"idle", "mkdir"} => SessionOf(i, t) = None
        /\ PointOK(task[i][t].pc, SessionOf(i, t))

StorageInv == DiskInv /\ OwnSessionInv /\ PointInv

-----------------------------------------------------------------------------
LEMMA StorageInit == Init => StorageInv
<1> SUFFICES ASSUME Init PROVE StorageInv
  OBVIOUS
<1>1. /\ dirs = Suspicious
      /\ \A n \in Names : files[n] \in SuspiciousContents \union {NoFiles}
      /\ \A n \in Names : files[n] = NoFiles <=> n \in Sessions
  BY DEF Init
<1>2. /\ \A f \in FileNames : NoFiles[f] = "absent"
      /\ \A c \in SuspiciousContents : c["marker"] # "complete" \/ c["other"] # "absent"
  BY DEF NoFiles, SuspiciousContents, FileNames
<1>3. DiskInv
  <2>1. ASSUME NEW n \in Suspicious PROVE ~(Verified(n) /\ Allowlisted(n))
    BY <1>1, <1>2, ConstantsAssumption DEF Verified, Allowlisted, Names
  <2>2. ASSUME NEW n \in Sessions PROVE Allowlisted(n) /\ ~Evidence(n)
    BY <1>1, <1>2 DEF Allowlisted, Evidence, Names, FileNames
  <2> QED
    BY <1>1, <2>1, <2>2 DEF DiskInv, EvidenceRecoverable, Names
<1>4. OwnSessionInv
  BY IdleFacts DEF Init, OwnSessionInv, SessionOf
<1>5. PointInv
  BY IdleFacts, ConstantsAssumption DEF Init, PointInv, PointOK, SessionOf
<1> QED
  BY <1>3, <1>4, <1>5 DEF StorageInv

\* While a thread works, every other thread of every process is idle.
LEMMA OthersIdle ==
  ASSUME ProtocolInv, NEW i \in Instances, NEW t \in Threads, Busy(i, t),
         NEW j \in Instances, NEW u \in Threads, j # i \/ u # t
  PROVE  task[j][u].pc = "idle"
<1>1. CASE j = i
  BY <1>1 DEF ProtocolInv, WorkInv, Busy, At
<1>2. CASE j # i
  <2>1. phase[i] \in Owning
    BY DEF ProtocolInv, WorkInv, Owning, Serving
  <2>2. phase[j] \notin Owning
    BY <1>2, <2>1 DEF ProtocolInv, OwnerInv
  <2> QED
    BY <2>2 DEF ProtocolInv, WorkInv, Busy, At, Owning, Serving
<1> QED
  BY <1>1, <1>2

\* Writing or removing one file of a session of the app keeps DiskInv if the
\* marker changes only without evidence and evidence appears only under a marker.
LEMMA StoreKeepsDisk ==
  ASSUME DiskInv, files \in FileSpace, UNCHANGED dirs,
         NEW n \in Sessions, n \in dirs,
         NEW f \in {"marker", "before", "after"}, NEW v \in FileStates, Store(n, f, v),
         IF f = "marker" THEN ~Evidence(n) ELSE v = "absent" \/ Verified(n)
  PROVE  DiskInv' /\ \A m \in Suspicious : files'[m] = files[m]
<1>0. n \in Names /\ f \in FileNames
  BY DEF Names, FileNames
<1>1. /\ files'[n][f] = v
      /\ \A g \in FileNames : g # f => files'[n][g] = files[n][g]
      /\ \A m \in Names : m # n => files'[m] = files[m]
  BY <1>0, StoreFacts
<1>2. \A m \in Suspicious : files'[m] = files[m]
  BY <1>1, ConstantsAssumption DEF Names
<1>3. ASSUME NEW m \in Suspicious PROVE ~(Verified(m) /\ Allowlisted(m))'
  BY <1>2, <1>3 DEF DiskInv, Verified, Allowlisted
<1>4. ASSUME NEW m \in Sessions PROVE Allowlisted(m)'
  BY <1>1 DEF DiskInv, Allowlisted, Names, FileNames
<1>5. ASSUME NEW m \in Names \ dirs PROVE files'[m] = NoFiles
  BY <1>1 DEF DiskInv
<1>6. ASSUME NEW m \in Sessions, Evidence(m)' PROVE Verified(m)'
  <2>1. CASE m # n
    BY <1>1, <1>6, <2>1 DEF DiskInv, EvidenceRecoverable, Evidence, Verified, Names
  <2>2. CASE m = n /\ f = "marker"
    BY <1>1, <1>6, <2>2 DEF Evidence, FileNames
  <2>3. CASE m = n /\ f # "marker"
    <3>1. Verified(n)
      BY <1>1, <1>6, <2>3 DEF DiskInv, EvidenceRecoverable, Evidence, FileNames
    <3> QED
      BY <1>1, <2>3, <3>1 DEF Verified, FileNames
  <2> QED
    BY <2>1, <2>2, <2>3
<1>7. EvidenceRecoverable'
  BY <1>4, <1>6 DEF EvidenceRecoverable
<1> QED
  BY <1>2, <1>3, <1>4, <1>5, <1>7 DEF DiskInv

\* Only the thread that takes a storage step has to be looked at.
LEMMA StorageReduce ==
  ASSUME ProtocolInv, StorageInv, NEW i \in Instances, NEW t \in Threads,
         StorageFrame(i, t), DiskInv',
         task'[i][t].goal # "recover" => SessionOf(i, t)' \in Sessions \union {None},
         PointOK(task[i][t].pc, SessionOf(i, t))'
  PROVE  StorageInv'
<1>1. ASSUME NEW j \in Instances, NEW u \in Threads, j # i \/ u # t
      PROVE  task'[j][u] = task[j][u] /\ task[j][u].pc = "idle"
  BY <1>1, OthersIdle DEF StorageFrame, Busy, At
<1>2. OwnSessionInv'
  BY <1>1 DEF StorageInv, OwnSessionInv, StorageFrame, SessionOf
<1>3. PointInv'
  <2>1. ASSUME NEW j \in Instances, NEW u \in Threads
        PROVE  /\ task'[j][u].pc \in {"idle", "mkdir"} => SessionOf(j, u)' = None
               /\ PointOK(task[j][u].pc, SessionOf(j, u))'
    <3>1. CASE j = i /\ u = t
      BY <3>1 DEF StorageFrame
    <3>2. CASE j # i \/ u # t
      BY <1>1, <3>2 DEF StorageInv, PointInv, PointOK, SessionOf
    <3> QED
      BY <3>1, <3>2
  <2> QED
    BY <2>1 DEF PointInv
<1> QED
  BY <1>2, <1>3 DEF StorageInv

\* A storage step keeps StorageInv and does nothing to a suspicious entry.
LEMMA StorageStepStorage ==
  ASSUME ProtocolInv, StorageInv, NEW i \in Instances, NEW t \in Threads, StorageStep(i, t)
  PROVE  StorageInv' /\ \A m \in Suspicious : files'[m] = files[m]
<1> DEFINE n == SessionOf(i, t)
           pc == task[i][t].pc
           npc == task'[i][t].pc
           Untouched == \A m \in Suspicious : files'[m] = files[m]
<1>0. /\ task \in TaskSpace /\ files \in FileSpace /\ dirs \subseteq Names
      /\ DiskInv /\ PointOK(pc, n)
      /\ pc = "mkdir" => n = None
      /\ task[i][t].goal # "recover" => n \in Sessions \union {None}
      /\ pc \notin {"idle", "mkdir", "start_failed"} => n \in Names
  BY DEF ProtocolInv, TypeOK, TaskSpace, FileSpace, StorageInv, PointInv, OwnSessionInv,
         SessionInv
<1>f. StorageFrame(i, t)
  BY StorageStepFrame DEF ProtocolInv
<1>n. ASSUME pc \notin {"idle", "mkdir", "start_failed", "validate", "cleanup_failed"}
      PROVE  n \in Sessions /\ n \in Names
  BY <1>0, <1>n DEF PointOK, Names
<1>g. ASSUME NEW to \in Points, Goto(i, t, to)
      PROVE  npc = to /\ n' = n
  BY <1>0, <1>g, GotoFacts DEF SessionOf
<1>k. pc # "mkdir" => n' = n
  BY <1>f DEF StorageFrame, SessionOf
\* The step moves on with the disk as it was.
<1>q. ASSUME NEW to \in Points, Goto(i, t, to), UNCHANGED <<dirs, files>>,
             n \in Suspicious => to \in {"validate", "cleanup_failed"},
             to \notin {"marker_open", "marker_write", "rm_after", "rm_marker", "rm_dir",
                        "before_write", "after_write"},
             to = "undo_dir" => pc \in {"marker_open", "marker_write"},
             to = "rm_before" => n \in dirs
      PROVE  StorageInv' /\ Untouched
  <2>1. DiskInv'
    BY <1>0, <1>q DEF DiskInv, EvidenceRecoverable, Verified, Allowlisted, Evidence
  <2>2. to = "undo_dir" => ~Evidence(n)
    BY <1>0, <1>q DEF PointOK, Evidence, NoFiles, FileNames
  <2>3. PointOK(to, n)'
    BY <1>q, <1>g, <2>2 DEF PointOK, Evidence
  <2> QED
    BY <1>0, <1>f, <1>g, <1>q, <2>1, <2>3, StorageReduce DEF StorageFrame
\* The step writes or removes one file and moves on.
<1>s. ASSUME NEW to \in Points, Goto(i, t, to), UNCHANGED dirs,
             n \in Sessions, n \in dirs,
             NEW f \in {"marker", "before", "after"}, NEW v \in FileStates, Store(n, f, v),
             IF f = "marker" THEN ~Evidence(n) ELSE v = "absent" \/ Verified(n),
             PointOK(to, n)'
      PROVE  StorageInv' /\ Untouched
  <2>1. DiskInv' /\ Untouched
    BY <1>0, <1>s, StoreKeepsDisk
  <2> QED
    BY <1>0, <1>f, <1>g, <1>s, <2>1, StorageReduce DEF StorageFrame
<1>e. ASSUME ErrorPath(i, t), UNCHANGED <<dirs, files>>, n \in Sessions
      PROVE  StorageInv' /\ Untouched
  <2>1. \E to \in {"validate", "drop_after"} : Goto(i, t, to)
    BY <1>e DEF ErrorPath
  <2> QED
    BY <1>e, <1>q, <2>1, ConstantsAssumption DEF Points
<1>1. CASE MakeDirectory(i, t)
  <2>1. CASE Goto(i, t, "start_failed") /\ UNCHANGED <<dirs, discarded>>
    BY <1>0, <1>1, <1>q, <2>1, ConstantsAssumption DEF MakeDirectory, Points, At
  <2>2. ASSUME NEW m \in Names \ dirs,
               dirs' = dirs \union {m},
               SetTask(i, t, [task[i][t] EXCEPT !.pc = "marker_open", !.session = m])
        PROVE  StorageInv' /\ Untouched
    <3>1. m \in Sessions /\ files[m] = NoFiles /\ UNCHANGED files
      BY <1>0, <1>1, <2>2 DEF DiskInv, Names, MakeDirectory
    <3>2. npc = "marker_open" /\ SessionOf(i, t)' = m
      <4> DEFINE k == [task[i][t] EXCEPT !.pc = "marker_open", !.session = m]
      <4>1. task[i][t] \in Tasks /\ m \in Names
        BY <1>0, <2>2 DEF TaskSpace
      <4>2. k \in Tasks /\ k.pc = "marker_open" /\ k.session = m
        BY <4>1 DEF Tasks, Points
      <4> HIDE DEF k
      <4>3. task'[i][t] = k
        BY <1>0, <2>2, <4>2, SetTaskFacts DEF k
      <4> QED
        BY <4>2, <4>3 DEF SessionOf
    <3>3. DiskInv'
      <4>1. \A x \in Suspicious : x \in dirs
        BY <1>0 DEF DiskInv
      <4> QED
        BY <1>0, <2>2, <3>1, <4>1 DEF DiskInv, EvidenceRecoverable, Verified, Allowlisted, Evidence
    <3>4. PointOK("marker_open", m)'
      BY <2>2, <3>1, ConstantsAssumption DEF PointOK
    <3> QED
      BY <1>f, <3>1, <3>2, <3>3, <3>4, StorageReduce
  <2> QED
    BY <1>1, <2>1, <2>2 DEF MakeDirectory
<1>2. CASE OpenMarker(i, t)
  <2>1. /\ n \in Sessions /\ n \in Names /\ n \in dirs /\ pc = "marker_open"
        /\ ~Evidence(n) /\ UNCHANGED dirs /\ n' = n
    BY <1>0, <1>2, <1>k, <1>n DEF OpenMarker, At, PointOK, Evidence, NoFiles, FileNames
  <2>2. CASE Goto(i, t, "undo_dir") /\ UNCHANGED files
    BY <1>q, <2>1, <2>2, ConstantsAssumption DEF Points
  <2>3. CASE Store(n, "marker", "partial") /\ Goto(i, t, "marker_write")
    <3>1. PointOK("marker_write", n)'
      <4>1. files'[n]["before"] = files[n]["before"] /\ files'[n]["after"] = files[n]["after"]
        BY <1>0, <2>1, <2>3, StoreFacts DEF FileNames, FileStates
      <4> QED
        BY <2>1, <4>1, ConstantsAssumption DEF PointOK, Evidence
    <3> QED
      BY <1>s, <2>1, <2>3, <3>1 DEF Points, FileStates
  <2> QED
    BY <1>2, <2>2, <2>3 DEF OpenMarker
<1>3. CASE WriteMarker(i, t)
  <2>1. /\ n \in Sessions /\ n \in Names /\ n \in dirs /\ pc = "marker_write"
        /\ ~Evidence(n) /\ UNCHANGED dirs /\ n' = n
    BY <1>0, <1>3, <1>k, <1>n DEF WriteMarker, At, PointOK
  <2>2. CASE Goto(i, t, "undo_dir") /\ UNCHANGED files
    BY <1>q, <2>1, <2>2, ConstantsAssumption DEF Points
  <2>3. CASE Store(n, "marker", "complete") /\ Goto(i, t, "capture")
    <3>1. PointOK("capture", n)'
      BY <2>1, ConstantsAssumption DEF PointOK
    <3> QED
      BY <1>s, <2>1, <2>3, <3>1 DEF Points, FileStates
  <2> QED
    BY <1>3, <2>2, <2>3 DEF WriteMarker
<1>4. CASE UndoDirectory(i, t) \/ RemoveDirectory(i, t)
  <2>1. /\ n \in Sessions /\ n \in Names /\ UNCHANGED files
        /\ \E to \in {"start_failed", "cleanup_ok", "cleanup_failed"} : Goto(i, t, to)
        /\ dirs' = dirs \/ (dirs' = dirs \ {n} /\ files[n] = NoFiles)
    BY <1>4, <1>n DEF UndoDirectory, RemoveDirectory, At
  <2>2. DiskInv'
    <3>1. files[n] = NoFiles => ~Evidence(n)
      BY DEF Evidence, NoFiles, FileNames
    <3> QED
      BY <1>0, <2>1, <3>1, ConstantsAssumption
      DEF DiskInv, EvidenceRecoverable, Verified, Allowlisted, Evidence
  <2>3. PICK to \in {"start_failed", "cleanup_ok", "cleanup_failed"} : Goto(i, t, to)
    BY <2>1
  <2>4. npc = to /\ n' = n
    BY <1>g, <2>3 DEF Points
  <2>5. PointOK(to, n)'
    BY <2>1, <2>3, <2>4, ConstantsAssumption DEF PointOK
  <2> QED
    BY <1>f, <2>1, <2>2, <2>4, <2>5, StorageReduce
<1>5. CASE Capture(i, t)
  <2>1. n \in Sessions /\ UNCHANGED <<dirs, files>>
    BY <1>5, <1>n DEF Capture, At, diskVars
  <2>2. ErrorPath(i, t) \/ \E to \in {"before_open", "after_open"} : Goto(i, t, to)
    BY <1>5 DEF Capture
  <2> QED
    BY <1>e, <1>q, <2>1, <2>2, ConstantsAssumption DEF Points
<1>6. CASE WriteSteps(i, t)
  <2>1. ASSUME NEW f \in {"before", "after"}, NEW p \in {"before_open", "after_open"},
               NEW to \in {"before_write", "after_write"}, OpenSnapshot(i, t, p, f, to)
        PROVE  StorageInv' /\ Untouched
    <3>1. n \in Sessions /\ n \in Names /\ UNCHANGED dirs /\ n' = n
      BY <1>k, <1>n, <2>1 DEF OpenSnapshot, At
    <3>2. CASE ErrorPath(i, t) /\ UNCHANGED files
      BY <1>e, <3>1, <3>2
    <3>3. CASE Verified(n) /\ Store(n, f, "partial") /\ Goto(i, t, to)
      <4>1. files'[n]["marker"] = files[n]["marker"]
        BY <1>0, <3>1, <3>3, StoreFacts DEF FileNames, FileStates
      <4>2. PointOK(to, n)'
        BY <3>1, <3>3, <4>1, ConstantsAssumption DEF PointOK, Verified
      <4> QED
        BY <1>s, <3>1, <3>3, <4>2 DEF Points, FileStates, Verified
    <3> QED
      BY <2>1, <3>2, <3>3 DEF OpenSnapshot
  <2>2. ASSUME NEW f \in {"before", "after"}, NEW p \in {"before_write", "after_write"},
               NEW to \in {"started", "read_after"}, WriteSnapshot(i, t, p, f, to)
        PROVE  StorageInv' /\ Untouched
    <3>1. n \in Sessions /\ n \in Names /\ UNCHANGED dirs /\ Verified(n) /\ n' = n
      BY <1>0, <1>k, <1>n, <2>2 DEF WriteSnapshot, At, PointOK
    <3>2. CASE ErrorPath(i, t) /\ UNCHANGED files
      BY <1>e, <3>1, <3>2
    <3>3. CASE Store(n, f, "complete") /\ Goto(i, t, to)
      <4>1. PointOK(to, n)'
        BY <3>1, ConstantsAssumption DEF PointOK
      <4> QED
        BY <1>s, <3>1, <3>3, <4>1 DEF Points, FileStates, Verified
    <3> QED
      BY <2>2, <3>2, <3>3 DEF WriteSnapshot
  <2> QED
    BY <1>6, <2>1, <2>2 DEF WriteSteps
<1>7. CASE ReadSteps(i, t)
  <2>1. n \in Sessions /\ UNCHANGED <<dirs, files>>
    BY <1>7, <1>n DEF ReadSteps, ReadSnapshot, At, diskVars
  <2>2. ErrorPath(i, t) \/ \E to \in {"capture", "validate"} : Goto(i, t, to)
    BY <1>7 DEF ReadSteps, ReadSnapshot
  <2> QED
    BY <1>e, <1>q, <2>1, <2>2, ConstantsAssumption DEF Points
<1>8. CASE DropAfter(i, t)
  <2>1. n \in Sessions /\ UNCHANGED dirs /\ Goto(i, t, "finish_failed") /\ n' = n
    BY <1>8, <1>k, <1>n DEF DropAfter, At
  <2>2. CASE UNCHANGED files
    BY <1>q, <2>1, <2>2, ConstantsAssumption DEF Points
  <2>3. CASE Verified(n) /\ Store(n, "after", "absent")
    <3>1. PointOK("finish_failed", n)'
      BY <2>1, ConstantsAssumption DEF PointOK
    <3> QED
      BY <1>s, <2>1, <2>3, <3>1 DEF Points, FileStates, Verified
  <2> QED
    BY <1>8, <2>2, <2>3 DEF DropAfter
<1>9. CASE ValidateCleanup(i, t)
  <2>1. UNCHANGED <<dirs, files>>
    BY <1>9 DEF ValidateCleanup, diskVars
  <2>2. CASE Goto(i, t, "cleanup_failed")
    BY <1>q, <2>1, <2>2 DEF Points
  <2>3. CASE Verified(n) /\ Allowlisted(n) /\ Goto(i, t, "rm_before")
    BY <1>0, <1>q, <2>1, <2>3 DEF Points, DiskInv, Verified
  <2> QED
    BY <1>9, <2>2, <2>3 DEF ValidateCleanup
<1>10. CASE RemoveFiles(i, t)
  <2>0. /\ n \in Sessions /\ n \in Names /\ n \in dirs /\ UNCHANGED dirs
        /\ pc \in {"rm_before", "rm_after", "rm_marker"} /\ n' = n
    BY <1>0, <1>10, <1>k, <1>n DEF RemoveFiles, RemoveFile, At, PointOK
  <2>1. CASE Goto(i, t, "cleanup_failed") /\ UNCHANGED files
    BY <1>q, <2>0, <2>1 DEF Points
  <2>2. CASE Store(n, "before", "absent") /\ Goto(i, t, "rm_after")
    <3>1. files'[n]["before"] = "absent"
      BY <1>0, <2>0, <2>2, StoreFacts DEF FileNames, FileStates
    <3>2. PointOK("rm_after", n)'
      BY <2>0, <3>1, ConstantsAssumption DEF PointOK
    <3> QED
      BY <1>s, <2>0, <2>2, <3>2 DEF Points, FileStates
  <2>3. CASE pc = "rm_after" /\ Store(n, "after", "absent") /\ Goto(i, t, "rm_marker")
    <3>1. files'[n]["after"] = "absent" /\ files'[n]["before"] = "absent"
      BY <1>0, <2>0, <2>3, StoreFacts DEF FileNames, FileStates, PointOK
    <3>2. PointOK("rm_marker", n)'
      BY <2>0, <3>1, ConstantsAssumption DEF PointOK, Evidence
    <3> QED
      BY <1>s, <2>0, <2>3, <3>2 DEF Points, FileStates
  <2>4. CASE pc = "rm_marker" /\ Store(n, "marker", "absent") /\ Goto(i, t, "rm_dir")
    <3>0. ~Evidence(n)
      BY <1>0, <2>4 DEF PointOK
    <3>1. files'[n]["before"] = files[n]["before"] /\ files'[n]["after"] = files[n]["after"]
      BY <1>0, <2>0, <2>4, StoreFacts DEF FileNames, FileStates
    <3>2. PointOK("rm_dir", n)'
      BY <2>0, <3>0, <3>1, ConstantsAssumption DEF PointOK, Evidence
    <3> QED
      BY <1>s, <2>0, <2>4, <3>0, <3>2 DEF Points, FileStates
  <2> QED
    BY <1>10, <2>1, <2>2, <2>3, <2>4 DEF RemoveFiles, RemoveFile, At
<1> QED
  BY <1>1, <1>2, <1>3, <1>4, <1>5, <1>6, <1>7, <1>8, <1>9, <1>10 DEF StorageStep

-----------------------------------------------------------------------------
\* Every other step leaves the disk alone; a task it sets begins at a point that
\* relies on nothing.
TaskFrame ==
    /\ UNCHANGED <<dirs, files>>
    /\ \A i \in Instances : held'[i] \in Sessions \union {None}
    /\ \A i \in Instances, t \in Threads :
         \/ task'[i][t] = task[i][t]
         \/ task'[i][t] = Idle
         \/ /\ task'[i][t].pc = "mkdir" /\ task'[i][t].goal = "start"
            /\ task'[i][t].session = None
         \/ /\ task'[i][t].pc = "read_before" /\ task'[i][t].goal = "finish"
            /\ task'[i][t].session \in Sessions \union {None}
         \/ /\ task'[i][t].pc = "validate" /\ task'[i][t].goal \in {"cancel", "discard", "recover"}
            /\ task'[i][t].goal # "recover" => task'[i][t].session \in Sessions \union {None}

LEMMA TaskFrameStorage ==
  ASSUME StorageInv, TaskFrame
  PROVE  StorageInv'
<1>1. DiskInv'
  BY DEF TaskFrame, StorageInv, DiskInv, EvidenceRecoverable, Verified, Allowlisted, Evidence
<1>2. OwnSessionInv'
  BY IdleFacts DEF TaskFrame, StorageInv, OwnSessionInv, SessionOf
<1>3. PointInv'
  <2>1. ASSUME NEW i \in Instances, NEW t \in Threads
        PROVE  /\ task'[i][t].pc \in {"idle", "mkdir"} => task'[i][t].session = None
               /\ PointOK(task[i][t].pc, SessionOf(i, t))'
    <3>1. CASE task'[i][t] = task[i][t]
      BY <3>1 DEF TaskFrame, StorageInv, PointInv, PointOK, Verified, Evidence, SessionOf
    <3>2. CASE task'[i][t] # task[i][t]
      BY <3>2, IdleFacts, ConstantsAssumption DEF TaskFrame, PointOK, SessionOf
    <3> QED
      BY <3>1, <3>2
  <2> QED
    BY <2>1 DEF PointInv, SessionOf
<1> QED
  BY <1>1, <1>2, <1>3 DEF StorageInv

LEMMA ClaimFrame ==
  ASSUME ProtocolInv, StorageInv, NEW i \in Instances, NEW t \in Threads, NEW to,
         NEW pc \in {"mkdir", "read_before", "validate"},
         NEW n \in Sessions \union {None}, NEW goal \in Goals,
         pc = "mkdir" => n = None /\ goal = "start",
         pc = "read_before" => goal = "finish",
         pc = "validate" => goal \in {"cancel", "discard"},
         Claim(i, t, to, n, pc, goal), UNCHANGED diskVars
  PROVE  TaskFrame
<1> DEFINE k == [pc |-> pc, session |-> n, goal |-> goal]
<1>1. k \in Tasks /\ k.pc = pc /\ k.session = n /\ k.goal = goal /\ SetTask(i, t, k)
  BY DEF Tasks, Points, Names, Claim
<1> HIDE DEF k
<1>2. /\ task'[i][t] = k
      /\ \A j \in Instances, u \in Threads : j # i \/ u # t => task'[j][u] = task[j][u]
  BY <1>1, SetTaskFacts DEF ProtocolInv, TypeOK, TaskSpace
<1>3. \A j \in Instances : held'[j] \in Sessions \union {None}
  BY DEF Claim, ProtocolInv, TypeOK, StorageInv, OwnSessionInv
<1> QED
  BY <1>1, <1>2, <1>3 DEF TaskFrame, diskVars

LEMMA UserCommandFrame ==
  ASSUME ProtocolInv, StorageInv, NEW i \in Instances, NEW t \in Threads,
         UserCommand(i, t) \/ CancelCommand(i, t)
  PROVE  TaskFrame
<1>0. held[i] \in Sessions \union {None}
  BY DEF StorageInv, OwnSessionInv
<1>1. CASE StartCommand(i, t)
  BY <1>1, ClaimFrame DEF StartCommand, Goals
<1>2. CASE FinishCommand(i, t)
  BY <1>0, <1>2, ClaimFrame DEF FinishCommand, Goals
<1>3. CASE CancelCommand(i, t)
  BY <1>0, <1>3, ClaimFrame DEF CancelCommand, CancelCapturing, CancelResults, Goals
<1>4. CASE LeaveResults(i, t)
  BY <1>4 DEF LeaveResults, TaskFrame, StorageInv, OwnSessionInv, diskVars
<1> QED
  BY <1>1, <1>2, <1>3, <1>4 DEF UserCommand

LEMMA PublishFrame ==
  ASSUME ProtocolInv, StorageInv, NEW i \in Instances, NEW t \in Threads, PublishStep(i, t)
  PROVE  TaskFrame
<1>1. SessionOf(i, t) \in Sessions \union {None}
  BY DEF PublishStep, StartSucceeds, StartFails, FinishSucceeds, FinishFails, CancelEnds,
         StorageInv, OwnSessionInv
<1>2. \E to \in Stages, n \in Sessions \union {None} : Publish(i, t, to, n)
  BY <1>1 DEF PublishStep, StartSucceeds, StartFails, FinishSucceeds, FinishFails,
              CancelEnds, Stages
<1>3. PICK to \in Stages, n \in Sessions \union {None} : Publish(i, t, to, n)
  BY <1>2
<1>4. /\ task'[i][t] = Idle
      /\ \A j \in Instances, u \in Threads : j # i \/ u # t => task'[j][u] = task[j][u]
  BY <1>3, IdleFacts, SetTaskFacts DEF Publish, EndTask, ProtocolInv, TypeOK, TaskSpace
<1>5. \A j \in Instances : held'[j] \in Sessions \union {None}
  BY <1>3 DEF Publish, ProtocolInv, TypeOK, StorageInv, OwnSessionInv
<1> QED
  BY <1>3, <1>4, <1>5 DEF TaskFrame, Publish, diskVars

LEMMA ProcessFrame ==
  ASSUME ProtocolInv, StorageInv, NEW i \in Instances,
         ProcessStep(i) \/ Launch(i) \/ RecoveryAborts(i) \/ ExitRequested(i) \/ Crash(i)
  PROVE  TaskFrame
<1>0. /\ \A j \in Instances : held[j] \in Sessions \union {None}
      /\ task \in TaskSpace /\ Main \in Threads /\ todo[i] \subseteq Names
  BY DEF StorageInv, OwnSessionInv, ProtocolInv, TypeOK, TaskSpace, Threads
<1>1. CASE ExitCancel(i)
  BY <1>0, <1>1, UserCommandFrame DEF ExitCancel
<1>2. CASE RecoverEntry(i)
  <2>1. PICK n \in todo[i] :
          SetTask(i, Main, [pc |-> "validate", session |-> n, goal |-> "recover"])
    BY <1>2 DEF RecoverEntry
  <2> DEFINE k == [pc |-> "validate", session |-> n, goal |-> "recover"]
  <2>2. k \in Tasks /\ k.pc = "validate" /\ k.goal = "recover" /\ SetTask(i, Main, k)
    BY <1>0, <2>1 DEF Tasks, Points, Goals
  <2> HIDE DEF k
  <2>3. /\ task'[i][Main] = k
        /\ \A j \in Instances, u \in Threads : j # i \/ u # Main => task'[j][u] = task[j][u]
    BY <1>0, <2>2, SetTaskFacts
  <2> QED
    BY <1>0, <1>2, <2>2, <2>3 DEF TaskFrame, RecoverEntry, diskVars, procVars
<1>3. CASE RecoverEntryEnds(i)
  <2>1. /\ task'[i][Main] = Idle
        /\ \A j \in Instances, u \in Threads : j # i \/ u # Main => task'[j][u] = task[j][u]
    BY <1>0, <1>3, IdleFacts, SetTaskFacts DEF RecoverEntryEnds, EndTask
  <2> QED
    BY <1>0, <1>3, <2>1 DEF TaskFrame, RecoverEntryEnds, diskVars
<1>4. CASE ProcessGone(i)
  <2>1. \A j \in Instances, u \in Threads : task'[j][u] \in {Idle, task[j][u]}
    BY <1>0, <1>4 DEF ProcessGone, TaskSpace
  <2>2. \A j \in Instances : held'[j] \in Sessions \union {None}
    BY <1>0, <1>4 DEF ProcessGone, ProtocolInv, TypeOK
  <2> QED
    BY <1>4, <2>1, <2>2 DEF TaskFrame, ProcessGone
<1>5. ASSUME UNCHANGED <<dirs, files, held, task>> PROVE TaskFrame
  BY <1>0, <1>5 DEF TaskFrame
<1>6. CASE \/ AcquireLock(i) \/ RecoveryEnds(i) \/ ExitWithoutCleanup(i)
           \/ Launch(i) \/ RecoveryAborts(i) \/ ExitRequested(i)
  BY <1>5, <1>6 DEF AcquireLock, RecoveryEnds, ExitWithoutCleanup, Launch, RecoveryAborts,
                    ExitRequested, diskVars
<1> QED
  BY <1>1, <1>2, <1>3, <1>4, <1>6 DEF ProcessStep, Terminate, Crash

LEMMA StorageInvStep ==
  ASSUME ProtocolInv, StorageInv, [Next]_vars
  PROVE  StorageInv' /\ \A n \in Suspicious : files'[n] = files[n]
<1>1. CASE UNCHANGED vars
  <2>1. TaskFrame
    BY <1>1 DEF vars, TaskFrame, StorageInv, OwnSessionInv
  <2> QED
    BY <2>1, TaskFrameStorage DEF TaskFrame
<1>2. ASSUME NEW i \in Instances, NEW t \in Threads, StorageStep(i, t)
      PROVE  StorageInv' /\ \A n \in Suspicious : files'[n] = files[n]
  BY <1>2, StorageStepStorage
<1>3. ASSUME NEW i \in Instances, NEW t \in Threads, PublishStep(i, t) \/ UserCommand(i, t)
      PROVE  TaskFrame
  BY <1>3, PublishFrame, UserCommandFrame
<1>4. ASSUME NEW i \in Instances,
             ProcessStep(i) \/ Launch(i) \/ RecoveryAborts(i) \/ ExitRequested(i) \/ Crash(i)
      PROVE  TaskFrame
  BY <1>4, ProcessFrame
<1>5. TaskFrame => StorageInv' /\ \A n \in Suspicious : files'[n] = files[n]
  BY TaskFrameStorage DEF TaskFrame
<1> QED
  BY <1>1, <1>2, <1>3, <1>4, <1>5 DEF Next, ThreadStep

LEMMA StorageInvariant == Spec => [](ProtocolInv /\ StorageInv)
<1>1. Init => ProtocolInv /\ StorageInv
  BY ProtocolInit, StorageInit
<1>2. ProtocolInv /\ StorageInv /\ [Next]_vars => (ProtocolInv /\ StorageInv)'
  BY ProtocolStep, StorageInvStep
<1> QED
  BY <1>1, <1>2, PTL DEF Spec

\* Whatever fails or dies at whichever step, a directory with Snapshot bytes has
\* an intact marker and no foreign entry, so that cleanup and startup recovery
\* accept it (create_session_named, write_snapshot, cleanup_session).
THEOREM EvidenceAlwaysRecoverable == Spec => []EvidenceRecoverable
<1>1. StorageInv => EvidenceRecoverable
  BY DEF StorageInv, DiskInv
<1> QED
  BY <1>1, StorageInvariant, PTL

\* No step of any process changes or removes an entry that is no intact session
\* of the app (validate_session, validate_session_entries, recover_stale_sessions).
THEOREM SuspiciousNeverTouched == Spec => SuspiciousUntouched
<1>1. ProtocolInv /\ StorageInv /\ [Next]_vars =>
        [\A n \in Suspicious : n \in dirs' /\ files'[n] = files[n]]_<<dirs, files>>
  <2> SUFFICES ASSUME ProtocolInv, StorageInv, [Next]_vars, NEW n \in Suspicious
               PROVE  n \in dirs' /\ files'[n] = files[n]
    OBVIOUS
  <2>1. StorageInv' /\ files'[n] = files[n]
    BY StorageInvStep
  <2> QED
    BY <2>1 DEF StorageInv, DiskInv
<1> QED
  BY <1>1, StorageInvariant, PTL DEF Spec, SuspiciousUntouched

-----------------------------------------------------------------------------
(***************************************************************************)
(* What the app knows about the Snapshots on the disk: the first Snapshot  *)
(* of a capture stays whole until it is given up, and a serving process    *)
(* accounts for all the evidence there is.                                 *)
(***************************************************************************)

\* The first Snapshot can be read, unless its session was given up.
Kept(n) == n \notin discarded => Verified(n) /\ files[n]["before"] = "complete"

\* Where finish_capture still needs the first Snapshot.
ComparePoints ==
    {"read_before", "capture", "after_open", "after_write", "read_after", "drop_after",
     "finish_failed"}

CleanupPoints ==
    {"validate", "rm_before", "rm_after", "rm_marker", "rm_dir", "cleanup_ok", "cleanup_failed"}

\* A task that will end in Capturing has its first Snapshot, or was a cancellation.
BaselineOK(k) ==
    /\ k.pc = "idle" => k.goal = "none"
    /\ k.pc = "mkdir" => k.goal = "start"
    /\ k.goal = "start" /\ k.pc = "started" => Kept(k.session)
    /\ k.goal = "finish" => k.pc \in ComparePoints \union CleanupPoints
    /\ k.goal = "finish" /\ k.pc \in ComparePoints => Kept(k.session)
    /\ k.goal = "cancel" => k.session \in discarded

BaselineInv ==
    /\ BaselineKept
    /\ \A i \in Instances, t \in Threads : BaselineOK(task[i][t])

\* A task that reports that nothing is left is right.
GoneOK(k) ==
    k.pc \in {"start_failed", "cleanup_ok"} /\ k.session \in Sessions => ~Evidence(k.session)

Known(i, n) ==
    \/ n = held[i]
    \/ n \in told[i]
    \/ \E t \in Threads : SessionOf(i, t) = n

\* A serving process accounts for the evidence, and recovery has it on its list.
Accounting == Serving \union {"recovering"}
Accounted(i, n) == Known(i, n) \/ (phase[i] = "recovering" /\ n \in todo[i])

AccountInv ==
    /\ \A i \in Instances : phase[i] \in Accounting =>
         \A n \in Sessions : Evidence(n) => Accounted(i, n)
    /\ \A i \in Instances, t \in Threads : GoneOK(task[i][t])

-----------------------------------------------------------------------------
LEMMA EvidenceInit == Init => BaselineInv /\ AccountInv
<1> SUFFICES ASSUME Init PROVE BaselineInv /\ AccountInv
  OBVIOUS
<1>1. \A i \in Instances, t \in Threads : task[i][t] = Idle
  BY DEF Init
<1>2. \A i \in Instances : stage[i] = "Ready" /\ phase[i] = "down"
  BY DEF Init
<1> QED
  BY <1>1, <1>2, IdleFacts
  DEF BaselineInv, BaselineKept, BaselineOK, AccountInv, Accounting, GoneOK, Serving

-----------------------------------------------------------------------------
(***************************************************************************)
(* What a storage step, a claim and a publication do to tasks and states.  *)
(***************************************************************************)

\* A storage step changes no files but those of its session, and only a new
\* directory ends the memory of a cancellation.
LEMMA StorageTouch ==
  ASSUME ProtocolInv, NEW i \in Instances, NEW t \in Threads, StorageStep(i, t)
  PROVE  /\ \A m \in Names : m # SessionOf(i, t) => files'[m] = files[m]
         /\ ~At(i, t, "mkdir") => UNCHANGED discarded
<1>0. files \in FileSpace
  BY DEF ProtocolInv, TypeOK, FileSpace
<1>1. ASSUME NEW f, NEW v, Store(SessionOf(i, t), f, v)
      PROVE  \A m \in Names : m # SessionOf(i, t) => files'[m] = files[m]
  BY <1>0, <1>1 DEF Store, FileSpace
<1>2. CASE MakeDirectory(i, t)
  BY <1>2 DEF MakeDirectory
<1>3. CASE OpenMarker(i, t) \/ WriteMarker(i, t)
  BY <1>1, <1>3 DEF OpenMarker, WriteMarker, historyVars
<1>4. CASE UndoDirectory(i, t) \/ RemoveDirectory(i, t)
  BY <1>4 DEF UndoDirectory, RemoveDirectory, historyVars
<1>5. CASE Capture(i, t) \/ ReadSteps(i, t) \/ ValidateCleanup(i, t)
  BY <1>5 DEF Capture, ReadSteps, ReadSnapshot, ValidateCleanup, historyVars, diskVars
<1>6. CASE WriteSteps(i, t)
  BY <1>1, <1>6 DEF WriteSteps, OpenSnapshot, WriteSnapshot, historyVars
<1>7. CASE DropAfter(i, t)
  BY <1>1, <1>7 DEF DropAfter, historyVars
<1>8. CASE RemoveFiles(i, t)
  BY <1>1, <1>8 DEF RemoveFiles, RemoveFile, historyVars
<1> QED
  BY <1>2, <1>3, <1>4, <1>5, <1>6, <1>7, <1>8 DEF StorageStep

\* While a thread works, no process has a stable capture.
LEMMA NoCaptureWhileBusy ==
  ASSUME ProtocolInv, NEW i \in Instances, NEW t \in Threads, Busy(i, t),
         NEW j \in Instances
  PROVE  /\ stage[j] # "Capturing"
         /\ phase[i] \in Owning
         /\ j # i => phase[j] \notin Owning
         /\ held[i] = None
<1>1. phase[i] \in Owning /\ stage[i] \notin {"Capturing", "Results"}
  BY DEF ProtocolInv, WorkInv, OwnerInv, Owning, Serving
<1>2. j # i => phase[j] \notin Owning
  BY <1>1 DEF ProtocolInv, OwnerInv
<1> QED
  BY <1>1, <1>2 DEF ProtocolInv, OwnerInv, Owning, Serving

LEMMA ClaimEffect ==
  ASSUME ProtocolInv, NEW i \in Instances, NEW t \in Threads, NEW to, NEW pc \in Points,
         NEW n \in Names \union {None}, NEW goal \in Goals, Claim(i, t, to, n, pc, goal)
  PROVE  /\ task'[i][t].pc = pc /\ task'[i][t].session = n /\ task'[i][t].goal = goal
         /\ \A j \in Instances, u \in Threads : j # i \/ u # t => task'[j][u] = task[j][u]
         /\ stage'[i] = to /\ held'[i] = None
         /\ \A j \in Instances : j # i => stage'[j] = stage[j] /\ held'[j] = held[j]
<1> DEFINE k == [pc |-> pc, session |-> n, goal |-> goal]
<1>1. k \in Tasks /\ k.pc = pc /\ k.session = n /\ k.goal = goal /\ SetTask(i, t, k)
  BY DEF Tasks, Claim
<1> HIDE DEF k
<1>2. /\ task'[i][t] = k
      /\ \A j \in Instances, u \in Threads : j # i \/ u # t => task'[j][u] = task[j][u]
  BY <1>1, SetTaskFacts DEF ProtocolInv, TypeOK, TaskSpace
<1> QED
  BY <1>1, <1>2 DEF Claim, ProtocolInv, TypeOK

LEMMA PublishEffect ==
  ASSUME ProtocolInv, NEW i \in Instances, NEW t \in Threads, NEW to, NEW n,
         Publish(i, t, to, n)
  PROVE  /\ task'[i][t] = Idle
         /\ \A j \in Instances, u \in Threads : j # i \/ u # t => task'[j][u] = task[j][u]
         /\ stage'[i] = to /\ held'[i] = n
         /\ \A j \in Instances : j # i => stage'[j] = stage[j] /\ held'[j] = held[j]
         /\ UNCHANGED <<dirs, files, todo, discarded>>
<1>1. /\ task'[i][t] = Idle
      /\ \A j \in Instances, u \in Threads : j # i \/ u # t => task'[j][u] = task[j][u]
  BY IdleFacts, SetTaskFacts DEF Publish, EndTask, ProtocolInv, TypeOK, TaskSpace
<1> QED
  BY <1>1 DEF Publish, ProtocolInv, TypeOK, diskVars

-----------------------------------------------------------------------------
(***************************************************************************)
(* BaselineInv is inductive.                                               *)
(***************************************************************************)

\* A storage step takes the first Snapshot from no task that still needs it.
LEMMA StorageBaseline ==
  ASSUME ProtocolInv, StorageInv, BaselineInv,
         NEW i \in Instances, NEW t \in Threads, StorageStep(i, t)
  PROVE  BaselineInv'
<1> DEFINE n == SessionOf(i, t)
           pc == task[i][t].pc
           npc == task'[i][t].pc
           goal == task[i][t].goal
           Own == /\ goal = "start" /\ npc = "started" => Kept(n)'
                  /\ goal = "finish" => npc \in ComparePoints \union CleanupPoints
                  /\ goal = "finish" /\ npc \in ComparePoints => Kept(n)'
<1>0. /\ task \in TaskSpace /\ files \in FileSpace
      /\ PointOK(pc, n) /\ BaselineOK(task[i][t])
      /\ pc \notin {"idle", "mkdir", "start_failed"} => n \in Names
  BY DEF ProtocolInv, TypeOK, TaskSpace, FileSpace, StorageInv, PointInv, BaselineInv, SessionInv
<1>p. /\ goal = "finish" => pc \in ComparePoints \union CleanupPoints
      /\ goal = "finish" /\ pc \in ComparePoints => Kept(n)
      /\ goal = "cancel" => n \in discarded /\ pc # "mkdir"
  BY <1>0 DEF BaselineOK, SessionOf
<1>f. StorageFrame(i, t)
  BY StorageStepFrame DEF ProtocolInv
<1>b. Busy(i, t)
  BY <1>f DEF StorageFrame, Busy, At
<1>d. pc # "mkdir" => discarded' = discarded /\ n' = n
  BY <1>f, StorageTouch DEF At, StorageFrame, SessionOf
<1>g. ASSUME NEW to \in Points, Goto(i, t, to) PROVE npc = to
  BY <1>0, <1>g, GotoFacts
<1>e. ASSUME ErrorPath(i, t)
      PROVE  npc \notin {"started"} /\ (goal = "finish" => npc = "drop_after")
  BY <1>e, <1>g DEF ErrorPath, Points
<1>k. ASSUME Kept(n), n \in Names, pc # "mkdir", UNCHANGED dirs,
             \/ UNCHANGED files
             \/ \E v \in FileStates : Store(n, "after", v)
      PROVE  Kept(n)'
  <2>1. \A f \in {"marker", "before"} : files'[n][f] = files[n][f]
    BY <1>0, <1>k, StoreFacts DEF FileNames
  <2> QED
    BY <1>d, <1>k, <2>1 DEF Kept, Verified
<1>1. ASSUME MakeDirectory(i, t) \/ OpenMarker(i, t) \/ WriteMarker(i, t) \/ UndoDirectory(i, t)
      PROVE  Own
  <2>1. goal # "finish"
    BY <1>0, <1>1 DEF MakeDirectory, OpenMarker, WriteMarker, UndoDirectory, At, BaselineOK,
                      ComparePoints, CleanupPoints
  <2>2. npc # "started"
    <3>1. CASE MakeDirectory(i, t)
      <4>1. ASSUME NEW m \in Names,
                   SetTask(i, t, [task[i][t] EXCEPT !.pc = "marker_open", !.session = m])
            PROVE  npc = "marker_open"
        <5> DEFINE new == [task[i][t] EXCEPT !.pc = "marker_open", !.session = m]
        <5>1. task[i][t] \in Tasks
          BY <1>0 DEF TaskSpace
        <5>2. new \in Tasks /\ new.pc = "marker_open"
          BY <5>1 DEF Tasks, Points
        <5> HIDE DEF new
        <5>3. task'[i][t] = new
          BY <1>0, <4>1, <5>2, SetTaskFacts DEF new
        <5> QED
          BY <5>2, <5>3
      <4> QED
        BY <1>g, <3>1, <4>1 DEF MakeDirectory, Points
    <3>2. CASE OpenMarker(i, t) \/ WriteMarker(i, t) \/ UndoDirectory(i, t)
      BY <1>g, <3>2 DEF OpenMarker, WriteMarker, UndoDirectory, Points
    <3> QED
      BY <1>1, <3>1, <3>2
  <2> QED
    BY <2>1, <2>2
<1>2. ASSUME Capture(i, t) \/ ReadSteps(i, t) PROVE Own
  <2>1. /\ UNCHANGED <<dirs, files>> /\ n \in Names
        /\ pc \in {"capture", "read_before", "read_after"}
    BY <1>0, <1>2 DEF Capture, ReadSteps, ReadSnapshot, At, diskVars
  <2>2. goal = "finish" => Kept(n)'
    BY <1>0, <1>k, <1>p, <2>1 DEF ComparePoints
  <2>3. npc # "started" /\ (goal = "finish" => npc \in ComparePoints \union CleanupPoints)
    BY <1>2, <1>g, <1>e DEF Capture, ReadSteps, ReadSnapshot, Points, ComparePoints, CleanupPoints
  <2> QED
    BY <2>2, <2>3
<1>3. ASSUME NEW p \in {"before_open", "after_open"}, NEW f \in {"before", "after"},
             NEW to \in {"before_write", "after_write"}, OpenSnapshot(i, t, p, f, to),
             p = "after_open" => f = "after" /\ to = "after_write"
      PROVE  Own
  <2>1. pc = p /\ n \in Names /\ UNCHANGED dirs
    BY <1>0, <1>3 DEF OpenSnapshot, At
  <2>2. goal = "finish" => p = "after_open" /\ Kept(n)
    BY <1>p, <2>1 DEF ComparePoints, CleanupPoints
  <2>3. goal = "finish" => Kept(n)'
    BY <1>3, <1>k, <2>1, <2>2 DEF OpenSnapshot, FileStates
  <2>4. npc # "started" /\ (goal = "finish" => npc \in ComparePoints)
    BY <1>3, <1>e, <1>g, <2>2 DEF OpenSnapshot, Points, ComparePoints
  <2> QED
    BY <2>3, <2>4
<1>4. ASSUME WriteSnapshot(i, t, "before_write", "before", "started") PROVE Own
  <2>1. pc = "before_write" /\ n \in Names /\ UNCHANGED dirs /\ goal # "finish" /\ Verified(n)
    BY <1>0, <1>4 DEF WriteSnapshot, At, BaselineOK, ComparePoints, CleanupPoints, PointOK
  <2>2. CASE Store(n, "before", "complete")
    <3>1. files'[n]["before"] = "complete" /\ files'[n]["marker"] = files[n]["marker"]
      BY <1>0, <2>1, <2>2, StoreFacts DEF FileNames, FileStates
    <3> QED
      BY <1>d, <2>1, <3>1 DEF Kept, Verified
  <2>3. CASE ErrorPath(i, t)
    BY <1>e, <2>1, <2>3
  <2> QED
    BY <1>4, <2>2, <2>3 DEF WriteSnapshot
<1>5. ASSUME WriteSnapshot(i, t, "after_write", "after", "read_after") PROVE Own
  <2>1. pc = "after_write" /\ n \in Names /\ UNCHANGED dirs
    BY <1>0, <1>5 DEF WriteSnapshot, At
  <2>2. goal = "finish" => Kept(n)'
    BY <1>0, <1>5, <1>k, <1>p, <2>1 DEF WriteSnapshot, FileStates, ComparePoints
  <2>3. npc # "started" /\ (goal = "finish" => npc \in ComparePoints)
    BY <1>5, <1>e, <1>g DEF WriteSnapshot, Points, ComparePoints
  <2> QED
    BY <2>2, <2>3
<1>6. ASSUME DropAfter(i, t) PROVE Own
  <2>1. pc = "drop_after" /\ n \in Names /\ UNCHANGED dirs /\ npc = "finish_failed"
    BY <1>0, <1>6, <1>g DEF DropAfter, At, Points
  <2>2. goal = "finish" => Kept(n)'
    BY <1>0, <1>6, <1>k, <1>p, <2>1 DEF DropAfter, FileStates, ComparePoints
  <2> QED
    BY <2>1, <2>2 DEF ComparePoints
<1>7. ASSUME ValidateCleanup(i, t) \/ RemoveFiles(i, t) \/ RemoveDirectory(i, t) PROVE Own
  <2>1. npc \in CleanupPoints
    BY <1>7, <1>g DEF ValidateCleanup, RemoveFiles, RemoveFile, RemoveDirectory, Points, CleanupPoints
  <2> QED
    BY <2>1 DEF ComparePoints, CleanupPoints
<1>8. Own
  BY <1>1, <1>2, <1>3, <1>4, <1>5, <1>6, <1>7 DEF StorageStep, WriteSteps
<1>9. BaselineOK(task[i][t])'
  <2>1. task'[i][t].goal = goal /\ npc \notin {"idle", "mkdir"}
    BY <1>f DEF StorageFrame
  <2>2. goal = "cancel" => n' \in discarded'
    BY <1>d, <1>p
  <2> QED
    BY <1>8, <2>1, <2>2 DEF BaselineOK, SessionOf
<1>10. BaselineKept'
  BY <1>b, <1>f, NoCaptureWhileBusy DEF BaselineKept, StorageFrame
<1>11. ASSUME NEW j \in Instances, NEW u \in Threads, j # i \/ u # t
       PROVE  BaselineOK(task[j][u])'
  <2>1. task'[j][u] = task[j][u] /\ task[j][u].pc = "idle" /\ BaselineOK(task[j][u])
    BY <1>b, <1>f, <1>11, OthersIdle DEF StorageFrame, BaselineInv
  <2> QED
    BY <2>1 DEF BaselineOK
<1> QED
  BY <1>9, <1>10, <1>11 DEF BaselineInv

\* How a task begins: comparing needs the first Snapshot, cancelling gives it up.
Begins(k, gone) ==
    \/ k = Idle
    \/ k.pc = "mkdir" /\ k.goal = "start"
    \/ k.pc = "read_before" /\ k.goal = "finish" /\ Kept(k.session)
    \/ k.pc = "validate" /\ k.goal \in {"discard", "recover"}
    \/ k.pc = "validate" /\ k.goal = "cancel" /\ k.session \in gone

\* The other steps leave the disk alone and forget no cancellation.
LEMMA BaselineFrame ==
  ASSUME BaselineInv, UNCHANGED <<dirs, files>>, discarded \subseteq discarded',
         \A i \in Instances : stage'[i] = "Capturing" =>
           \/ stage[i] = "Capturing" /\ held'[i] = held[i]
           \/ Kept(held'[i]),
         \A i \in Instances, t \in Threads :
           task'[i][t] = task[i][t] \/ Begins(task'[i][t], discarded')
  PROVE  BaselineInv'
<1>1. BaselineKept'
  <2> SUFFICES ASSUME NEW i \in Instances, stage'[i] = "Capturing", held'[i] \notin discarded'
               PROVE  Verified(held[i])' /\ files'[held'[i]]["before"] = "complete"
    BY DEF BaselineKept
  <2>1. held'[i] \notin discarded
    OBVIOUS
  <2>2. Verified(held'[i]) /\ files[held'[i]]["before"] = "complete"
    BY <2>1 DEF BaselineInv, BaselineKept, Kept
  <2> QED
    BY <2>2 DEF Verified
<1>2. ASSUME NEW i \in Instances, NEW t \in Threads PROVE BaselineOK(task[i][t])'
  <2>1. CASE task'[i][t] = task[i][t]
    <3>1. BaselineOK(task[i][t])
      BY DEF BaselineInv
    <3> QED
      BY <2>1, <3>1 DEF BaselineOK, Kept, Verified
  <2>2. CASE Begins(task'[i][t], discarded')
    BY <2>2, IdleFacts DEF Begins, BaselineOK, ComparePoints, Kept, Verified
  <2> QED
    BY <2>1, <2>2
<1> QED
  BY <1>1, <1>2 DEF BaselineInv

LEMMA UserBaseline ==
  ASSUME ProtocolInv, StorageInv, BaselineInv, NEW i \in Instances, NEW t \in Threads,
         UserCommand(i, t) \/ CancelCommand(i, t)
  PROVE  BaselineInv'
<1>0. held[i] \in Names \union {None} /\ UNCHANGED <<dirs, files>>
  BY UserCommandFrame DEF ProtocolInv, TypeOK, TaskFrame
<1>c. ASSUME NEW to \in {"Starting", "Finishing"}, NEW n \in Names \union {None},
             NEW pc \in Points \ {"idle"}, NEW goal \in Goals, Claim(i, t, to, n, pc, goal),
             discarded \subseteq discarded',
             Begins([pc |-> pc, session |-> n, goal |-> goal], discarded')
      PROVE  BaselineInv'
  <2>0. pc \in Points
    BY <1>c
  <2>1. Begins(task'[i][t], discarded')
    BY <1>c, <2>0, ClaimEffect DEF Begins, Idle
  <2>2. \A j \in Instances, u \in Threads : j # i \/ u # t => task'[j][u] = task[j][u]
    BY <1>c, <2>0, ClaimEffect
  <2>3. \A j \in Instances : stage'[j] = "Capturing" => stage[j] = "Capturing" /\ held'[j] = held[j]
    <3>1. stage'[i] # "Capturing"
      BY <1>c DEF Claim, ProtocolInv, TypeOK
    <3>2. \A j \in Instances : j # i => stage'[j] = stage[j] /\ held'[j] = held[j]
      BY <1>c, <2>0, ClaimEffect
    <3> QED
      BY <3>1, <3>2
  <2> QED
    BY <1>0, <1>c, <2>1, <2>2, <2>3, BaselineFrame
<1>1. CASE StartCommand(i, t)
  <2>1. Claim(i, t, "Starting", None, "mkdir", "start") /\ UNCHANGED discarded
    BY <1>1 DEF StartCommand, historyVars
  <2> QED
    BY <1>0, <1>c, <2>1 DEF Points, Goals, Begins
<1>2. CASE FinishCommand(i, t)
  <2>1. /\ Claim(i, t, "Finishing", held[i], "read_before", "finish") /\ UNCHANGED discarded
        /\ Kept(held[i])
    BY <1>2 DEF FinishCommand, historyVars, BaselineInv, BaselineKept, Kept
  <2> QED
    BY <1>0, <1>c, <2>1 DEF Points, Goals, Begins
<1>3. CASE CancelCapturing(i, t)
  <2>1. /\ Claim(i, t, "Finishing", held[i], "validate", "cancel")
        /\ discarded' = discarded \union {held[i]}
    BY <1>3 DEF CancelCapturing
  <2> QED
    BY <1>0, <1>c, <2>1 DEF Points, Goals, Begins
<1>4. CASE CancelResults(i, t)
  <2>1. Claim(i, t, "Finishing", held[i], "validate", "discard") /\ UNCHANGED discarded
    BY <1>4 DEF CancelResults, historyVars
  <2> QED
    BY <1>0, <1>c, <2>1 DEF Points, Goals, Begins
<1>5. CASE LeaveResults(i, t)
  <2>1. /\ UNCHANGED <<held, task, discarded>>
        /\ \A j \in Instances : stage'[j] = "Capturing" => stage[j] = "Capturing"
    BY <1>5 DEF LeaveResults, historyVars, ProtocolInv, TypeOK
  <2> QED
    BY <1>0, <2>1, BaselineFrame
<1> QED
  BY <1>1, <1>2, <1>3, <1>4, <1>5 DEF UserCommand, CancelCommand

LEMMA PublishBaseline ==
  ASSUME ProtocolInv, StorageInv, BaselineInv, NEW i \in Instances, NEW t \in Threads,
         PublishStep(i, t)
  PROVE  BaselineInv'
<1>0. BaselineOK(task[i][t])
  BY DEF BaselineInv
<1>1. ASSUME NEW to, NEW n, Publish(i, t, to, n), to = "Capturing" => Kept(n)
      PROVE  BaselineInv'
  BY <1>1, PublishEffect, BaselineFrame DEF Begins
<1>2. CASE StartSucceeds(i, t) \/ FinishFails(i, t)
  <2>1. Kept(SessionOf(i, t)) /\ Publish(i, t, "Capturing", SessionOf(i, t))
    BY <1>0, <1>2 DEF StartSucceeds, FinishFails, BaselineOK, At, SessionOf, ComparePoints
  <2> QED
    BY <1>1, <2>1
<1>3. CASE StartFails(i, t) \/ FinishSucceeds(i, t)
  BY <1>1, <1>3 DEF StartFails, FinishSucceeds
<1>4. CASE CancelEnds(i, t)
  <2>1. task[i][t].goal = "cancel" => Kept(SessionOf(i, t))
    BY <1>0 DEF BaselineOK, Kept, SessionOf
  <2> QED
    BY <1>1, <1>4, <2>1 DEF CancelEnds
<1> QED
  BY <1>2, <1>3, <1>4 DEF PublishStep

LEMMA ProcessBaseline ==
  ASSUME ProtocolInv, StorageInv, BaselineInv, NEW i \in Instances,
         ProcessStep(i) \/ Launch(i) \/ RecoveryAborts(i) \/ ExitRequested(i) \/ Crash(i)
  PROVE  BaselineInv'
<1>0. /\ UNCHANGED <<dirs, files>> /\ task \in TaskSpace /\ Main \in Threads
      /\ todo[i] \subseteq Names /\ stage \in [Instances -> Stages]
  BY ProcessFrame DEF TaskFrame, ProtocolInv, TypeOK, TaskSpace, Threads
<1>1. CASE ExitCancel(i)
  BY <1>0, <1>1, UserBaseline DEF ExitCancel
<1>2. CASE RecoverEntry(i)
  <2>1. PICK n \in todo[i] :
          SetTask(i, Main, [pc |-> "validate", session |-> n, goal |-> "recover"])
    BY <1>2 DEF RecoverEntry
  <2> DEFINE k == [pc |-> "validate", session |-> n, goal |-> "recover"]
  <2>2. k \in Tasks /\ k.pc = "validate" /\ k.goal = "recover" /\ SetTask(i, Main, k)
    BY <1>0, <2>1 DEF Tasks, Points, Goals
  <2> HIDE DEF k
  <2>3. /\ task'[i][Main] = k
        /\ \A j \in Instances, u \in Threads : j # i \/ u # Main => task'[j][u] = task[j][u]
    BY <1>0, <2>2, SetTaskFacts
  <2> QED
    BY <1>0, <1>2, <2>2, <2>3, BaselineFrame DEF Begins, RecoverEntry, procVars, historyVars
<1>3. CASE RecoverEntryEnds(i)
  <2>1. /\ task'[i][Main] = Idle
        /\ \A j \in Instances, u \in Threads : j # i \/ u # Main => task'[j][u] = task[j][u]
    BY <1>0, <1>3, IdleFacts, SetTaskFacts DEF RecoverEntryEnds, EndTask
  <2> QED
    BY <1>0, <1>3, <2>1, BaselineFrame DEF Begins, RecoverEntryEnds
<1>4. CASE ProcessGone(i)
  <2>1. \A j \in Instances, u \in Threads : task'[j][u] \in {task[j][u], Idle}
    BY <1>0, <1>4 DEF ProcessGone, TaskSpace
  <2>2. \A j \in Instances : stage'[j] = "Capturing" => stage[j] = "Capturing" /\ held'[j] = held[j]
    BY <1>0, <1>4 DEF ProcessGone, ProtocolInv, TypeOK
  <2> QED
    BY <1>0, <1>4, <2>1, <2>2, BaselineFrame DEF Begins, ProcessGone
<1>5. CASE \/ AcquireLock(i) \/ RecoveryEnds(i) \/ ExitWithoutCleanup(i)
           \/ Launch(i) \/ RecoveryAborts(i) \/ ExitRequested(i)
  <2>1. UNCHANGED <<held, task, discarded>>
    BY <1>5 DEF AcquireLock, RecoveryEnds, ExitWithoutCleanup, Launch, RecoveryAborts,
                ExitRequested, historyVars
  <2>2. \A j \in Instances : stage'[j] = "Capturing" => stage[j] = "Capturing"
    BY <1>0, <1>5 DEF AcquireLock, RecoveryEnds, ExitWithoutCleanup, Launch, RecoveryAborts,
                      ExitRequested
  <2> QED
    BY <1>0, <2>1, <2>2, BaselineFrame
<1> QED
  BY <1>1, <1>2, <1>3, <1>4, <1>5 DEF ProcessStep, Terminate, Crash

LEMMA BaselineStep ==
  ASSUME ProtocolInv, StorageInv, BaselineInv, [Next]_vars
  PROVE  BaselineInv'
<1>1. CASE UNCHANGED vars
  BY <1>1, BaselineFrame DEF vars
<1>2. ASSUME NEW i \in Instances, NEW t \in Threads, ThreadStep(i, t) \/ UserCommand(i, t)
      PROVE  BaselineInv'
  BY <1>2, StorageBaseline, PublishBaseline, UserBaseline DEF ThreadStep
<1>3. ASSUME NEW i \in Instances,
             ProcessStep(i) \/ Launch(i) \/ RecoveryAborts(i) \/ ExitRequested(i) \/ Crash(i)
      PROVE  BaselineInv'
  BY <1>3, ProcessBaseline
<1> QED
  BY <1>1, <1>2, <1>3 DEF Next

\* Wherever finish_capture fails, and however often, its session can be finished
\* with the same first Snapshot until a cancellation has begun to remove it.
THEOREM BaselineAlwaysKept == Spec => []BaselineKept
<1>1. Init => BaselineInv
  BY EvidenceInit
<1>2. ProtocolInv /\ StorageInv /\ BaselineInv /\ [Next]_vars => BaselineInv'
  BY BaselineStep
<1>3. BaselineInv => BaselineKept
  BY DEF BaselineInv
<1> QED
  BY <1>1, <1>2, <1>3, StorageInvariant, PTL DEF Spec

-----------------------------------------------------------------------------
(***************************************************************************)
(* AccountInv is inductive.                                                *)
(***************************************************************************)

\* New evidence is that of the working task, and what a task calls gone is gone.
LEMMA StorageAccount ==
  ASSUME ProtocolInv, StorageInv, AccountInv,
         NEW i \in Instances, NEW t \in Threads, StorageStep(i, t)
  PROVE  AccountInv'
<1> DEFINE n == SessionOf(i, t)
           pc == task[i][t].pc
           npc == task'[i][t].pc
<1>0. /\ task \in TaskSpace /\ PointOK(pc, n)
      /\ pc = "mkdir" => n = None
  BY DEF ProtocolInv, TypeOK, TaskSpace, StorageInv, PointInv
<1>f. StorageFrame(i, t)
  BY StorageStepFrame DEF ProtocolInv
<1>b. Busy(i, t)
  BY <1>f DEF StorageFrame, Busy, At
<1>g. ASSUME NEW to \in Points, Goto(i, t, to) PROVE npc = to /\ n' = n
  BY <1>0, <1>g, GotoFacts DEF SessionOf
<1>1. ASSUME NEW j \in Instances, phase'[j] \in Accounting,
             NEW m \in Sessions, Evidence(m)'
      PROVE  Accounted(j, m)'
  <2>1. j = i
    <3>1. phase[j] \in Owning
      BY <1>f, <1>1 DEF StorageFrame, Accounting, Owning, Serving
    <3> QED
      BY <1>b, <3>1, NoCaptureWhileBusy
  <2>2. CASE m = n'
    BY <2>1, <2>2 DEF Accounted, Known
  <2>3. CASE m # n'
    <3>1. m # n
      BY <1>0, <1>f, <2>3, ConstantsAssumption DEF StorageFrame, SessionOf
    <3>2. Evidence(m)
      BY <1>1, <3>1, StorageTouch DEF Evidence, Names
    <3>3. Accounted(i, m)
      BY <1>1, <1>f, <2>1, <3>2 DEF StorageFrame, AccountInv
    <3>4. \A u \in Threads : SessionOf(i, u) = m => SessionOf(i, u)' = m
      BY <1>f, <3>1 DEF StorageFrame, SessionOf
    <3> QED
      BY <1>f, <2>1, <3>3, <3>4 DEF StorageFrame, Accounted, Known
  <2> QED
    BY <2>2, <2>3
<1>2. GoneOK(task[i][t])'
  <2>1. CASE MakeDirectory(i, t)
    <3>1. CASE Goto(i, t, "start_failed")
      <4>1. n' = None
        BY <1>0, <1>g, <2>1, <3>1 DEF MakeDirectory, At, Points
      <4> QED
        BY <4>1, ConstantsAssumption DEF GoneOK, SessionOf
    <3>2. ASSUME NEW m \in Names,
                 SetTask(i, t, [task[i][t] EXCEPT !.pc = "marker_open", !.session = m])
          PROVE  npc = "marker_open"
      <4> DEFINE new == [task[i][t] EXCEPT !.pc = "marker_open", !.session = m]
      <4>1. task[i][t] \in Tasks
        BY <1>0 DEF TaskSpace
      <4>2. new \in Tasks /\ new.pc = "marker_open"
        BY <4>1 DEF Tasks, Points
      <4> HIDE DEF new
      <4>3. task'[i][t] = new
        BY <1>0, <3>2, <4>2, SetTaskFacts DEF new
      <4> QED
        BY <4>2, <4>3
    <3> QED
      BY <2>1, <3>1, <3>2 DEF MakeDirectory, GoneOK
  <2>2. CASE UndoDirectory(i, t) \/ RemoveDirectory(i, t)
    <3>1. ~Evidence(n) /\ UNCHANGED files /\ n' = n
      BY <1>0, <1>f, <2>2 DEF UndoDirectory, RemoveDirectory, At, PointOK, StorageFrame, SessionOf
    <3> QED
      BY <3>1 DEF GoneOK, Evidence, SessionOf
  <2>3. CASE \/ OpenMarker(i, t) \/ WriteMarker(i, t) \/ Capture(i, t) \/ WriteSteps(i, t)
             \/ ReadSteps(i, t) \/ DropAfter(i, t) \/ ValidateCleanup(i, t) \/ RemoveFiles(i, t)
    <3>1. ErrorPath(i, t) => npc \in {"validate", "drop_after"}
      BY <1>g DEF ErrorPath, Points
    <3>2. npc \notin {"start_failed", "cleanup_ok"}
      BY <1>g, <2>3, <3>1 DEF OpenMarker, WriteMarker, Capture, WriteSteps, OpenSnapshot,
        WriteSnapshot, ReadSteps, ReadSnapshot, DropAfter, ValidateCleanup, RemoveFiles,
        RemoveFile, Points
    <3> QED
      BY <3>2 DEF GoneOK
  <2> QED
    BY <2>1, <2>2, <2>3 DEF StorageStep
<1>3. ASSUME NEW j \in Instances, NEW u \in Threads, j # i \/ u # t
      PROVE  GoneOK(task[j][u])'
  BY <1>b, <1>f, <1>3, OthersIdle DEF StorageFrame, GoneOK
<1> QED
  BY <1>1, <1>2, <1>3 DEF AccountInv

\* The other steps concern one process and change no file.
Same(j) ==
    /\ phase'[j] = phase[j] /\ held'[j] = held[j] /\ told'[j] = told[j] /\ todo'[j] = todo[j]
    /\ \A u \in Threads : task'[j][u] = task[j][u]

LEMMA AccountFrame ==
  ASSUME AccountInv, UNCHANGED files, NEW i \in Instances,
         \A j \in Instances : j # i => Same(j),
         phase'[i] \in Accounting =>
           \A n \in Sessions : Evidence(n) => Accounted(i, n)',
         \A u \in Threads :
           task'[i][u] = task[i][u] \/ task'[i][u].pc \notin {"start_failed", "cleanup_ok"}
  PROVE  AccountInv'
<1>1. \A n \in Sessions : Evidence(n)' <=> Evidence(n)
  BY DEF Evidence
<1>2. ASSUME NEW j \in Instances, j # i, phase'[j] \in Accounting, NEW n \in Sessions, Evidence(n)
      PROVE  Accounted(j, n)'
  <2>1. Same(j) /\ Accounted(j, n)
    BY <1>2 DEF Same, AccountInv
  <2> QED
    BY <2>1 DEF Same, Accounted, Known, SessionOf
<1>3. ASSUME NEW j \in Instances, NEW u \in Threads PROVE GoneOK(task[j][u])'
  <2>1. CASE task'[j][u] = task[j][u]
    BY <1>1, <2>1 DEF GoneOK, AccountInv
  <2>2. CASE task'[j][u] # task[j][u]
    BY <2>2 DEF Same, GoneOK
  <2> QED
    BY <2>1, <2>2
<1> QED
  BY <1>1, <1>2, <1>3 DEF AccountInv

\* Where process i keeps what it knew, its phase may move on.
LEMMA AccountMove ==
  ASSUME AccountInv, UNCHANGED <<files, held, task>>, NEW i \in Instances,
         \A j \in Instances : j # i => Same(j),
         phase'[i] \in Accounting =>
           /\ phase[i] \in Accounting
           /\ told[i] \subseteq told'[i]
           /\ phase[i] = "recovering" => todo[i] = {} \/ (phase'[i] = "recovering" /\ todo'[i] = todo[i])
  PROVE  AccountInv'
<1>1. ASSUME phase'[i] \in Accounting, NEW n \in Sessions, Evidence(n)
      PROVE  Accounted(i, n)'
  <2>1. Accounted(i, n)
    BY <1>1 DEF AccountInv
  <2> QED
    BY <1>1, <2>1 DEF Accounted, Known, SessionOf
<1> QED
  BY <1>1, AccountFrame

\* A thread that takes a task takes over the session that its process held.
LEMMA ClaimAccount ==
  ASSUME ProtocolInv, StorageInv, AccountInv, NEW i \in Instances, NEW t \in Threads, NEW to,
         NEW pc \in {"mkdir", "read_before", "validate"}, NEW goal \in Goals,
         Claim(i, t, to, held[i], pc, goal), UNCHANGED <<files, phase, todo, told>>
  PROVE  AccountInv'
<1> DEFINE k == [pc |-> pc, session |-> held[i], goal |-> goal]
<1>0. k \in Tasks /\ k.pc = pc /\ k.session = held[i] /\ SetTask(i, t, k)
  BY DEF Tasks, Points, Claim, ProtocolInv, TypeOK
<1> HIDE DEF k
<1>1. /\ task'[i][t].pc = pc /\ task'[i][t].session = held[i]
      /\ \A j \in Instances, u \in Threads : j # i \/ u # t => task'[j][u] = task[j][u]
      /\ \A j \in Instances : j # i => held'[j] = held[j]
  <2>1. /\ task'[i][t] = k
        /\ \A j \in Instances, u \in Threads : j # i \/ u # t => task'[j][u] = task[j][u]
    BY <1>0, SetTaskFacts DEF ProtocolInv, TypeOK, TaskSpace
  <2> QED
    BY <1>0, <2>1 DEF Claim, ProtocolInv, TypeOK
<1>2. SessionOf(i, t) = None
  BY DEF Claim, At, StorageInv, PointInv
<1>3. ASSUME phase'[i] \in Accounting, NEW n \in Sessions, Evidence(n)
      PROVE  Accounted(i, n)'
  <2>1. Accounted(i, n) /\ n # None
    BY <1>3, ConstantsAssumption DEF AccountInv
  <2>2. CASE n = held[i]
    BY <1>1, <2>2 DEF Accounted, Known, SessionOf
  <2>3. CASE n # held[i]
    <3>1. \A u \in Threads : SessionOf(i, u) = n => SessionOf(i, u)' = n
      BY <1>1, <1>2, <2>1 DEF SessionOf
    <3> QED
      BY <2>1, <2>3, <3>1 DEF Accounted, Known
  <2> QED
    BY <2>2, <2>3
<1>4. \A j \in Instances : j # i => Same(j)
  BY <1>1 DEF Same
<1>5. \A u \in Threads :
        task'[i][u] = task[i][u] \/ task'[i][u].pc \notin {"start_failed", "cleanup_ok"}
  BY <1>1
<1> QED
  BY <1>3, <1>4, <1>5, AccountFrame

LEMMA UserAccount ==
  ASSUME ProtocolInv, StorageInv, AccountInv, NEW i \in Instances, NEW t \in Threads,
         UserCommand(i, t) \/ CancelCommand(i, t)
  PROVE  AccountInv'
<1>1. CASE StartCommand(i, t)
  <2>1. held[i] = None
    BY <1>1 DEF StartCommand, ProtocolInv, OwnerInv
  <2> QED
    BY <1>1, <2>1, ClaimAccount DEF StartCommand, diskVars, historyVars, Goals
<1>2. CASE FinishCommand(i, t)
  BY <1>2, ClaimAccount DEF FinishCommand, diskVars, historyVars, Goals
<1>3. CASE CancelCommand(i, t)
  BY <1>3, ClaimAccount DEF CancelCommand, CancelCapturing, CancelResults, diskVars,
                            historyVars, Goals
<1>4. CASE LeaveResults(i, t)
  <2>1. UNCHANGED <<files, held, task, phase, told, todo>>
    BY <1>4 DEF LeaveResults, diskVars, historyVars
  <2>2. \A j \in Instances : Same(j)
    BY <2>1 DEF Same
  <2>3. phase[i] # "recovering"
    BY <1>4 DEF LeaveResults, Serving
  <2> QED
    BY <2>1, <2>2, <2>3, AccountMove
<1> QED
  BY <1>1, <1>2, <1>3, <1>4 DEF UserCommand

\* A thread that ends its task hands over its session, unless that is gone.
LEMMA EndAccount ==
  ASSUME ProtocolInv, StorageInv, AccountInv, NEW i \in Instances, NEW t \in Threads,
         Busy(i, t), UNCHANGED files, EndTask(i, t),
         \A j \in Instances : j # i =>
           phase'[j] = phase[j] /\ held'[j] = held[j] /\ told'[j] = told[j] /\ todo'[j] = todo[j],
         told[i] \subseteq told'[i],
         \/ SessionOf(i, t) \in told'[i] \union {held'[i]}
         \/ task[i][t].pc \in {"start_failed", "cleanup_ok"},
         phase'[i] = "recovering" => todo[i] \ {SessionOf(i, t)} \subseteq todo'[i],
         phase'[i] \in Serving => phase[i] \in Serving,
         phase'[i] = "recovering" => phase[i] = "recovering"
  PROVE  AccountInv'
<1>1. /\ task'[i][t] = Idle
      /\ \A j \in Instances, u \in Threads : j # i \/ u # t => task'[j][u] = task[j][u]
  BY IdleFacts, SetTaskFacts DEF EndTask, ProtocolInv, TypeOK, TaskSpace
<1>2. ASSUME phase'[i] \in Accounting, NEW n \in Sessions, Evidence(n)
      PROVE  Accounted(i, n)'
  <2>1. Accounted(i, n) /\ n # None /\ held[i] = None
    BY <1>2, ConstantsAssumption, NoCaptureWhileBusy DEF AccountInv, Accounting
  <2>2. CASE n = SessionOf(i, t)
    <3>1. task[i][t].pc \notin {"start_failed", "cleanup_ok"}
      BY <1>2, <2>2 DEF AccountInv, GoneOK, SessionOf
    <3> QED
      BY <2>2, <3>1 DEF Accounted, Known
  <2>3. CASE n # SessionOf(i, t)
    <3>1. \A u \in Threads : SessionOf(i, u) # n
      <4>1. \A u \in Threads : u # t => SessionOf(i, u) = None
        BY OthersIdle DEF StorageInv, PointInv
      <4> QED
        BY <2>1, <2>3, <4>1
    <3>2. n \in told[i] \/ (phase[i] = "recovering" /\ n \in todo[i])
      BY <2>1, <3>1 DEF Accounted, Known
    <3>3. phase[i] = "recovering" => phase'[i] = "recovering"
      BY <1>2 DEF Accounting, Serving
    <3> QED
      BY <2>3, <3>2, <3>3 DEF Accounted, Known
  <2> QED
    BY <2>2, <2>3
<1>3. \A j \in Instances : j # i => Same(j)
  BY <1>1 DEF Same
<1>4. \A u \in Threads :
        task'[i][u] = task[i][u] \/ task'[i][u].pc \notin {"start_failed", "cleanup_ok"}
  BY <1>1, IdleFacts
<1> QED
  BY <1>2, <1>3, <1>4, AccountFrame

LEMMA PublishAccount ==
  ASSUME ProtocolInv, StorageInv, AccountInv, NEW i \in Instances, NEW t \in Threads,
         PublishStep(i, t)
  PROVE  AccountInv'
<1>0. told \in [Instances -> SUBSET Names] /\ phase \in [Instances -> Phases]
  BY DEF ProtocolInv, TypeOK
<1>1. Busy(i, t) /\ phase[i] \in Serving
  <2>1. Busy(i, t) /\ task[i][t].goal # "recover"
    BY DEF PublishStep, StartSucceeds, StartFails, FinishSucceeds, FinishFails, CancelEnds,
           Busy, At
  <2> QED
    BY <2>1 DEF ProtocolInv, WorkInv
<1>2. ASSUME NEW to, NEW n, Publish(i, t, to, n),
             \A j \in Instances : j # i => told'[j] = told[j] /\ phase'[j] = phase[j],
             told[i] \subseteq told'[i], phase'[i] \in Serving,
             \/ n = SessionOf(i, t)
             \/ SessionOf(i, t) \in told'[i]
             \/ task[i][t].pc \in {"start_failed", "cleanup_ok"}
      PROVE  AccountInv'
  <2>1. EndTask(i, t)
    BY <1>2 DEF Publish
  <2>2. /\ held'[i] = n /\ UNCHANGED <<files, todo>>
        /\ \A j \in Instances : j # i => held'[j] = held[j]
    BY <1>2, PublishEffect
  <2>3. phase'[i] # "recovering"
    BY <1>2 DEF Serving
  <2> QED
    BY <1>1, <1>2, <2>1, <2>2, <2>3, EndAccount
<1>3. CASE StartSucceeds(i, t) \/ FinishFails(i, t)
  BY <1>1, <1>2, <1>3 DEF StartSucceeds, FinishFails
<1>4. CASE StartFails(i, t)
  <2>1. /\ Publish(i, t, "Ready", None) /\ UNCHANGED phase
        /\ \A j \in Instances : j # i => told'[j] = told[j]
        /\ told[i] \subseteq told'[i]
        /\ SessionOf(i, t) \in told'[i] \/ task[i][t].pc \in {"start_failed", "cleanup_ok"}
    BY <1>0, <1>4 DEF StartFails, Report, At
  <2> QED
    BY <1>1, <1>2, <2>1
<1>5. CASE FinishSucceeds(i, t)
  BY <1>1, <1>2, <1>5 DEF FinishSucceeds, At
<1>6. CASE CancelEnds(i, t)
  <2>1. /\ \A j \in Instances : j # i => phase'[j] = phase[j]
        /\ phase'[i] \in Serving /\ UNCHANGED told
    BY <1>0, <1>1, <1>6 DEF CancelEnds, Serving
  <2> QED
    BY <1>2, <1>6, <2>1 DEF CancelEnds, At
<1> QED
  BY <1>3, <1>4, <1>5, <1>6 DEF PublishStep

LEMMA ProcessAccount ==
  ASSUME ProtocolInv, StorageInv, AccountInv, NEW i \in Instances,
         ProcessStep(i) \/ Launch(i) \/ RecoveryAborts(i) \/ ExitRequested(i) \/ Crash(i)
  PROVE  AccountInv'
<1>0. /\ UNCHANGED files /\ task \in TaskSpace /\ Main \in Threads /\ todo[i] \subseteq Names
      /\ phase \in [Instances -> Phases] /\ held \in [Instances -> Names \union {None}]
      /\ told \in [Instances -> SUBSET Names] /\ todo \in [Instances -> SUBSET Names]
  BY ProcessFrame DEF TaskFrame, ProtocolInv, TypeOK, TaskSpace, Threads
<1>1. CASE ExitCancel(i)
  BY <1>1, <1>0, UserAccount DEF ExitCancel
<1>2. CASE RecoverEntry(i)
  <2>1. PICK n \in todo[i] :
          SetTask(i, Main, [pc |-> "validate", session |-> n, goal |-> "recover"])
    BY <1>2 DEF RecoverEntry
  <2> DEFINE k == [pc |-> "validate", session |-> n, goal |-> "recover"]
  <2>2. k \in Tasks /\ k.pc = "validate" /\ SetTask(i, Main, k)
    BY <1>0, <2>1 DEF Tasks, Points, Goals
  <2> HIDE DEF k
  <2>3. /\ task'[i][Main] = k
        /\ \A j \in Instances, u \in Threads : j # i \/ u # Main => task'[j][u] = task[j][u]
    BY <1>0, <2>2, SetTaskFacts
  <2>4. SessionOf(i, Main) = None /\ UNCHANGED <<phase, held, told, todo>>
    BY <1>0, <1>2 DEF RecoverEntry, At, procVars, historyVars, StorageInv, PointInv
  <2>5. ASSUME phase'[i] \in Accounting, NEW m \in Sessions, Evidence(m)
        PROVE  Accounted(i, m)'
    <3>1. Accounted(i, m) /\ m # None
      BY <2>4, <2>5, ConstantsAssumption DEF AccountInv
    <3>2. \A u \in Threads : SessionOf(i, u) = m => SessionOf(i, u)' = m
      BY <2>3, <2>4, <3>1 DEF SessionOf
    <3> QED
      BY <2>4, <3>1, <3>2 DEF Accounted, Known
  <2>6. \A j \in Instances : j # i => Same(j)
    BY <2>3, <2>4 DEF Same
  <2>7. \A u \in Threads :
          task'[i][u] = task[i][u] \/ task'[i][u].pc \notin {"start_failed", "cleanup_ok"}
    BY <2>2, <2>3
  <2> QED
    BY <1>0, <2>5, <2>6, <2>7, AccountFrame
<1>3. CASE RecoverEntryEnds(i)
  <2>1. Busy(i, Main) /\ phase[i] = "recovering" /\ EndTask(i, Main)
    BY <1>0, <1>3 DEF RecoverEntryEnds, Busy, At, ProtocolInv, WorkInv
  <2>2. /\ UNCHANGED <<phase, held>>
        /\ todo'[i] = todo[i] \ {SessionOf(i, Main)}
        /\ \A j \in Instances : j # i => todo'[j] = todo[j] /\ told'[j] = told[j]
        /\ told[i] \subseteq told'[i]
        /\ SessionOf(i, Main) \in told'[i] \/ task[i][Main].pc \in {"start_failed", "cleanup_ok"}
    BY <1>0, <1>3 DEF RecoverEntryEnds, Report, At
  <2> QED
    BY <1>0, <2>1, <2>2, EndAccount DEF Serving
<1>4. CASE ProcessGone(i)
  <2>1. \A j \in Instances : j # i => Same(j)
    BY <1>0, <1>4 DEF ProcessGone, Same, TaskSpace
  <2>2. phase'[i] \notin Accounting /\ \A u \in Threads : task'[i][u] = Idle
    BY <1>0, <1>4 DEF ProcessGone, Accounting, Serving, TaskSpace
  <2> QED
    BY <1>0, <2>1, <2>2, IdleFacts, AccountFrame
<1>5. CASE AcquireLock(i)
  <2>1. \A j \in Instances : j # i => Same(j)
    BY <1>0, <1>5 DEF AcquireLock, Same, historyVars
  <2>2. ASSUME phase'[i] \in Accounting, NEW n \in Sessions, Evidence(n)
        PROVE  Accounted(i, n)'
    <3>1. n \in dirs
      BY <2>2 DEF StorageInv, DiskInv, EvidenceRecoverable, Verified
    <3>2. phase'[i] = "recovering" /\ todo'[i] = dirs
      BY <1>0, <1>5, <2>2 DEF AcquireLock, Accounting, Serving
    <3> QED
      BY <3>1, <3>2 DEF Accounted
  <2>3. UNCHANGED task
    BY <1>5 DEF AcquireLock
  <2> QED
    BY <1>0, <2>1, <2>2, <2>3, AccountFrame
<1>6. CASE RecoveryEnds(i) \/ ExitWithoutCleanup(i) \/ ExitRequested(i)
  <2>1. /\ UNCHANGED <<held, task, told, todo>>
        /\ \A j \in Instances : j # i => phase'[j] = phase[j]
    BY <1>0, <1>6 DEF RecoveryEnds, ExitWithoutCleanup, ExitRequested, historyVars
  <2>2. /\ phase[i] \in Accounting
        /\ phase[i] = "recovering" => todo[i] = {}
    BY <1>6 DEF RecoveryEnds, ExitWithoutCleanup, ExitRequested, Accounting, Serving
  <2>3. \A j \in Instances : j # i => Same(j)
    BY <2>1 DEF Same
  <2> QED
    BY <1>0, <2>1, <2>2, <2>3, AccountMove
<1>7. CASE Launch(i) \/ RecoveryAborts(i)
  <2>1. /\ UNCHANGED <<held, task>> /\ phase'[i] \notin Accounting
        /\ \A j \in Instances : j # i => phase'[j] = phase[j] /\ told'[j] = told[j] /\ todo'[j] = todo[j]
    BY <1>0, <1>7 DEF Launch, RecoveryAborts, historyVars, Accounting, Serving
  <2>2. \A j \in Instances : j # i => Same(j)
    BY <2>1 DEF Same
  <2> QED
    BY <1>0, <2>1, <2>2, AccountMove
<1> QED
  BY <1>1, <1>2, <1>3, <1>4, <1>5, <1>6, <1>7 DEF ProcessStep, Terminate, Crash

LEMMA AccountStep ==
  ASSUME ProtocolInv, StorageInv, AccountInv, [Next]_vars
  PROVE  AccountInv'
<1>1. CASE UNCHANGED vars
  BY <1>1 DEF vars, AccountInv, Accounted, Known, Evidence, SessionOf, GoneOK
<1>2. ASSUME NEW i \in Instances, NEW t \in Threads, ThreadStep(i, t) \/ UserCommand(i, t)
      PROVE  AccountInv'
  BY <1>2, StorageAccount, PublishAccount, UserAccount DEF ThreadStep
<1>3. ASSUME NEW i \in Instances,
             ProcessStep(i) \/ Launch(i) \/ RecoveryAborts(i) \/ ExitRequested(i) \/ Crash(i)
      PROVE  AccountInv'
  BY <1>3, ProcessAccount
<1> QED
  BY <1>1, <1>2, <1>3 DEF Next

\* No path of start, finish, cancel, recovery or exit leaves Snapshots behind that
\* neither the state of the serving process nor a report of it names.
THEOREM EvidenceNeverSilent == Spec => []NoSilentEvidence
<1>1. Init => AccountInv
  BY EvidenceInit
<1>2. ProtocolInv /\ StorageInv /\ AccountInv /\ [Next]_vars => AccountInv'
  BY AccountStep
<1>3. AccountInv => NoSilentEvidence
  BY DEF AccountInv, NoSilentEvidence, Accounting, Accounted, Known, Serving
<1> QED
  BY <1>1, <1>2, <1>3, StorageInvariant, PTL DEF Spec

-----------------------------------------------------------------------------
(***************************************************************************)
(* The refinement of CaptureLifecycle.                                     *)
(***************************************************************************)

\* The first Snapshot of a session can be read.
First(n) == n \in Sessions /\ Verified(n) /\ files[n]["before"] = "complete"

\* Where start_capture is before any cleanup.
CreatePoints ==
    {"mkdir", "marker_open", "marker_write", "undo_dir", "start_failed", "capture",
     "before_open", "before_write", "started"}

\* A command keeps to its own points.  A start has a first Snapshot exactly when
\* it is about to succeed, and a finish that has read its own has it still.
LifeOK(k) ==
    /\ k.goal = "none" <=> k.pc = "idle"
    /\ k.goal = "start" => k.pc \in CreatePoints \union CleanupPoints
    /\ k.goal = "finish" => k.pc \in ComparePoints \union CleanupPoints
    /\ k.goal \in {"cancel", "discard", "recover"} => k.pc \in CleanupPoints
    /\ k.goal = "start" => (First(k.session) <=> k.pc = "started")
    /\ k.goal = "finish" /\ k.pc \in {"capture", "after_open", "after_write", "read_after"} =>
         First(k.session)
    /\ k.pc = "cleanup_ok" => ~First(k.session)

LifeInv == \A i \in Instances, t \in Threads : LifeOK(task[i][t])

-----------------------------------------------------------------------------
(***************************************************************************)
(* The state of the life cycle is the stage of the process that owns the   *)
(* root, or the command that one of its threads works on.                  *)
(***************************************************************************)
TaskMode(k) ==
    CASE k.goal = "start"   -> "Starting"
      [] k.goal = "finish" /\ k.pc \in ComparePoints -> "Comparing"
      [] k.goal = "finish" /\ k.pc \notin ComparePoints -> "Compared"
      [] k.goal = "cancel"  -> "DiscardingCapture"
      [] k.goal = "discard" -> "DiscardingResults"
      [] OTHER -> "Ready"

StageMode(s) == IF s \in {"Capturing", "Results"} THEN s ELSE "Ready"

KeptIf(b) == IF b THEN "kept" ELSE "none"

MapInv ==
    /\ \A i \in Instances, t \in Threads : Busy(i, t) =>
         /\ LifecycleMode = TaskMode(task[i][t])
         /\ LifecycleBaseline =
              KeptIf(task[i][t].goal # "recover" /\ First(task[i][t].session))
    /\ \A i \in Instances : lock = i /\ (\A t \in Threads : ~Busy(i, t)) =>
         /\ LifecycleMode = StageMode(stage[i])
         /\ LifecycleBaseline = KeptIf(First(held[i]))
    /\ lock = None => LifecycleMode = "Ready" /\ LifecycleBaseline = "none"

-----------------------------------------------------------------------------
(***************************************************************************)
(* LifeInv is inductive, and what a storage step means to the life cycle.  *)
(***************************************************************************)
LEMMA LifeInit == Init => LifeInv
<1> SUFFICES ASSUME Init, NEW i \in Instances, NEW t \in Threads PROVE LifeOK(task[i][t])
  BY DEF LifeInv
<1>1. task[i][t] = Idle
  BY DEF Init
<1> QED
  BY <1>1, IdleFacts DEF LifeOK

\* A directory that no Snapshot lies in has no first one.
LEMMA NoEvidenceNoFirst == \A n : ~Evidence(n) => ~First(n)
  BY DEF Evidence, First

\* What the storage step of a thread does to the first Snapshot of its command:
\* nothing; or a start has kept it; or it is given up by a command that may; or a
\* finish has compared with it, and goes over to removing it.
StorageEffect(i, t) ==
    LET goal == task[i][t].goal
        before == First(task[i][t].session)
        after == First(task[i][t].session)'
        comparing == task[i][t].pc \in ComparePoints
        compares == task'[i][t].pc \in ComparePoints
    IN  \/ goal = "recover"
        \/ (before <=> after) /\ (goal = "finish" => (comparing <=> compares))
        \/ goal = "start" /\ ~before /\ after
        \/ /\ goal \in {"finish", "cancel", "discard"} /\ before /\ ~after
           /\ goal = "finish" => ~comparing /\ ~compares
        \/ goal = "finish" /\ comparing /\ ~compares /\ before /\ after

LEMMA StorageLife ==
  ASSUME ProtocolInv, StorageInv, BaselineInv, LifeInv,
         NEW i \in Instances, NEW t \in Threads, StorageStep(i, t)
  PROVE  LifeOK(task[i][t])' /\ StorageEffect(i, t)
<1> DEFINE n == SessionOf(i, t)
           pc == task[i][t].pc
           npc == task'[i][t].pc
           goal == task[i][t].goal
           Done == LifeOK(task[i][t])' /\ StorageEffect(i, t)
<1>0. /\ task \in TaskSpace /\ files \in FileSpace
      /\ PointOK(pc, n) /\ LifeOK(task[i][t]) /\ BaselineOK(task[i][t])
      /\ pc \notin {"idle", "mkdir", "start_failed"} => n \in Names
  BY DEF ProtocolInv, TypeOK, TaskSpace, FileSpace, StorageInv, PointInv, LifeInv, BaselineInv,
         SessionInv
<1>f. StorageFrame(i, t)
  BY StorageStepFrame DEF ProtocolInv
<1>o. /\ pc \notin {"idle", "start_failed"} /\ goal # "none"
      /\ npc \notin {"idle", "mkdir"} /\ task'[i][t].goal = goal
      /\ pc # "mkdir" => n' = n /\ task'[i][t].session = n /\ n \in Names
  BY <1>0, <1>f DEF StorageFrame, LifeOK, SessionOf
<1>s. goal \in {"start", "finish", "cancel", "discard", "recover"}
  <2>1. task[i][t] \in Tasks
    BY <1>0 DEF TaskSpace
  <2> QED
    BY <1>o, <2>1 DEF Tasks, Goals
<1>p. /\ goal = "start" => pc \in CreatePoints \union CleanupPoints
      /\ goal = "finish" => pc \in ComparePoints \union CleanupPoints
      /\ goal \in {"cancel", "discard", "recover"} => pc \in CleanupPoints
      /\ goal = "start" => (First(n) <=> pc = "started")
      /\ goal = "finish" /\ pc \in {"capture", "after_open", "after_write", "read_after"} => First(n)
  BY <1>0 DEF LifeOK, SessionOf
<1>g. ASSUME NEW to \in Points, Goto(i, t, to) PROVE npc = to
  BY <1>0, <1>g, GotoFacts
<1>e. ASSUME ErrorPath(i, t) PROVE npc = IF goal = "start" THEN "validate" ELSE "drop_after"
  BY <1>e, <1>g DEF ErrorPath, Points
\* The first Snapshot is as it was.
<1>k. ASSUME pc # "mkdir", UNCHANGED dirs,
             UNCHANGED files \/ \E v \in FileStates : Store(n, "after", v)
      PROVE  First(n)' <=> First(n)
  <2>1. \A f \in {"marker", "before"} : files'[n][f] = files[n][f]
    BY <1>0, <1>k, <1>o, StoreFacts DEF FileNames
  <2> QED
    BY <1>k, <1>o, <2>1 DEF First, Verified
<1>1. ASSUME MakeDirectory(i, t) PROVE Done
  <2>1. pc = "mkdir" /\ goal = "start" /\ ~First(n) /\ UNCHANGED files
    BY <1>0, <1>1, <1>p DEF MakeDirectory, At, BaselineOK, CreatePoints
  <2>2. npc \in {"start_failed", "marker_open"} /\ ~First(n)'
    <3>1. ASSUME Goto(i, t, "start_failed"), UNCHANGED dirs
          PROVE  npc = "start_failed" /\ ~First(n)'
      <4>1. n' = n /\ npc = "start_failed"
        BY <1>0, <3>1, GotoFacts DEF SessionOf, Points
      <4> QED
        BY <2>1, <3>1, <4>1 DEF First, Verified
    <3>2. ASSUME NEW m \in Names \ dirs,
                 SetTask(i, t, [task[i][t] EXCEPT !.pc = "marker_open", !.session = m])
          PROVE  npc = "marker_open" /\ ~First(n)'
      <4> DEFINE new == [task[i][t] EXCEPT !.pc = "marker_open", !.session = m]
      <4>1. task[i][t] \in Tasks
        BY <1>0 DEF TaskSpace
      <4>2. new \in Tasks /\ new.pc = "marker_open" /\ new.session = m
        BY <4>1 DEF Tasks, Points
      <4> HIDE DEF new
      <4>3. task'[i][t] = new
        BY <1>0, <3>2, <4>2, SetTaskFacts DEF new
      <4>4. files[m] = NoFiles
        BY DEF StorageInv, DiskInv
      <4> QED
        BY <2>1, <4>2, <4>3, <4>4 DEF First, SessionOf, NoFiles, FileNames
    <3> QED
      BY <1>1, <3>1, <3>2 DEF MakeDirectory
  <2> QED
    BY <1>o, <2>1, <2>2 DEF LifeOK, StorageEffect, CreatePoints, SessionOf, First, Verified
\* Building and unbuilding the directory, without evidence.
<1>2. ASSUME OpenMarker(i, t) \/ WriteMarker(i, t) \/ UndoDirectory(i, t) PROVE Done
  <2>1. /\ pc \in {"marker_open", "marker_write", "undo_dir"} /\ goal = "start"
        /\ ~Evidence(n) /\ n \in Names /\ n' = n
    BY <1>0, <1>2, <1>o, <1>p, <1>s
    DEF OpenMarker, WriteMarker, UndoDirectory, At, PointOK, Evidence, NoFiles, FileNames,
        ComparePoints, CleanupPoints
  <2>2. UNCHANGED files \/ \E v \in FileStates : Store(n, "marker", v)
    BY <1>2 DEF OpenMarker, WriteMarker, UndoDirectory, FileStates
  <2>3. files'[n]["before"] = files[n]["before"]
    BY <1>0, <2>1, <2>2, StoreFacts DEF FileNames
  <2>4. ~First(n) /\ ~First(n)'
    BY <2>1, <2>3 DEF Evidence, First
  <2>5. npc \in {"marker_write", "capture", "undo_dir", "start_failed"}
    BY <1>2, <1>g DEF OpenMarker, WriteMarker, UndoDirectory, Points
  <2> QED
    BY <1>o, <2>1, <2>4, <2>5 DEF LifeOK, StorageEffect, CreatePoints, SessionOf
<1>3. ASSUME Capture(i, t) PROVE Done
  <2>1. pc = "capture" /\ UNCHANGED <<dirs, files>> /\ goal \in {"start", "finish"}
    BY <1>3, <1>p, <1>s DEF Capture, At, diskVars, CleanupPoints
  <2>2. First(n)' <=> First(n)
    BY <1>k, <2>1
  <2>3. npc \in IF goal = "start" THEN {"before_open", "validate"} ELSE {"after_open", "drop_after"}
    BY <1>3, <1>e, <1>g DEF Capture, Points
  <2> QED
    BY <1>o, <1>p, <2>1, <2>2, <2>3
    DEF LifeOK, StorageEffect, CreatePoints, ComparePoints, CleanupPoints, SessionOf
<1>4. ASSUME ReadSteps(i, t) PROVE Done
  <2>1. /\ pc \in {"read_before", "read_after"} /\ UNCHANGED <<dirs, files>> /\ goal = "finish"
        /\ n \in Sessions
    BY <1>0, <1>4, <1>p, <1>s
    DEF ReadSteps, ReadSnapshot, At, diskVars, CreatePoints, CleanupPoints, PointOK, Names
  <2>2. First(n)' <=> First(n)
    BY <1>k, <2>1
  <2>3. \/ npc = "drop_after"
        \/ pc = "read_before" /\ npc = "capture" /\ First(n)
        \/ pc = "read_after" /\ npc = "validate"
    BY <1>4, <1>e, <1>g, <2>1 DEF ReadSteps, ReadSnapshot, Points, First, At
  <2> QED
    BY <1>o, <1>p, <2>1, <2>2, <2>3
    DEF LifeOK, StorageEffect, ComparePoints, CleanupPoints, SessionOf
\* The two writes of the first Snapshot.
<1>5. ASSUME OpenSnapshot(i, t, "before_open", "before", "before_write") PROVE Done
  <2>1. pc = "before_open" /\ goal = "start" /\ n \in Names /\ n' = n /\ UNCHANGED dirs
    BY <1>5, <1>o, <1>p, <1>s DEF OpenSnapshot, At, ComparePoints, CleanupPoints
  <2>2. \/ npc = "before_write" /\ Store(n, "before", "partial")
        \/ npc = "validate" /\ UNCHANGED files
    BY <1>5, <1>e, <1>g, <2>1 DEF OpenSnapshot, Points
  <2>3. ~First(n)'
    <3>1. CASE Store(n, "before", "partial")
      <4>1. files'[n]["before"] = "partial"
        BY <1>0, <2>1, <3>1, StoreFacts DEF FileNames, FileStates
      <4> QED
        BY <2>1, <4>1 DEF First
    <3>2. CASE UNCHANGED files
      BY <1>k, <1>p, <2>1, <3>2
    <3> QED
      BY <2>2, <3>1, <3>2
  <2> QED
    BY <1>o, <1>p, <2>1, <2>2, <2>3 DEF LifeOK, StorageEffect, CreatePoints, CleanupPoints, SessionOf
<1>6. ASSUME WriteSnapshot(i, t, "before_write", "before", "started") PROVE Done
  <2>1. /\ pc = "before_write" /\ goal = "start" /\ n \in Sessions /\ n \in Names /\ n' = n
        /\ UNCHANGED dirs /\ Verified(n)
    BY <1>0, <1>6, <1>o, <1>p, <1>s
    DEF WriteSnapshot, At, ComparePoints, CleanupPoints, PointOK, Names
  <2>2. CASE Store(n, "before", "complete") /\ Goto(i, t, "started")
    <3>1. files'[n]["before"] = "complete" /\ files'[n]["marker"] = files[n]["marker"]
      BY <1>0, <2>1, <2>2, StoreFacts DEF FileNames, FileStates
    <3>2. First(n)' /\ npc = "started"
      BY <1>g, <2>1, <2>2, <3>1 DEF First, Verified, Points
    <3> QED
      BY <1>o, <1>p, <2>1, <3>2 DEF LifeOK, StorageEffect, CreatePoints, SessionOf
  <2>3. CASE ErrorPath(i, t) /\ UNCHANGED files
    <3>1. npc = "validate" /\ ~First(n)'
      BY <1>e, <1>k, <1>p, <2>1, <2>3
    <3> QED
      BY <1>o, <1>p, <2>1, <3>1 DEF LifeOK, StorageEffect, CleanupPoints, SessionOf
  <2> QED
    BY <1>6, <2>2, <2>3 DEF WriteSnapshot
\* The second Snapshot, written or dropped beside the first.
<1>7. ASSUME \/ OpenSnapshot(i, t, "after_open", "after", "after_write")
             \/ WriteSnapshot(i, t, "after_write", "after", "read_after")
             \/ DropAfter(i, t)
      PROVE  Done
  <2>1. /\ pc \in {"after_open", "after_write", "drop_after"} /\ goal = "finish"
        /\ UNCHANGED dirs /\ (UNCHANGED files \/ \E v \in FileStates : Store(n, "after", v))
    BY <1>7, <1>p, <1>s
    DEF OpenSnapshot, WriteSnapshot, DropAfter, At, CreatePoints, CleanupPoints, FileStates
  <2>2. First(n)' <=> First(n)
    BY <1>k, <2>1
  <2>3. \/ npc \in {"drop_after", "finish_failed"}
        \/ npc \in {"after_write", "read_after"} /\ First(n)
    BY <1>7, <1>e, <1>g, <1>p, <2>1 DEF OpenSnapshot, WriteSnapshot, DropAfter, Points, At
  <2> QED
    BY <1>o, <1>p, <2>1, <2>2, <2>3
    DEF LifeOK, StorageEffect, ComparePoints, CleanupPoints, SessionOf
\* A cleanup, of whichever command.
<1>8. ASSUME ValidateCleanup(i, t) \/ RemoveFiles(i, t) \/ RemoveDirectory(i, t) PROVE Done
  <2>1. /\ pc \in {"validate", "rm_before", "rm_after", "rm_marker", "rm_dir"}
        /\ n \in Names /\ n' = n
    BY <1>8, <1>o DEF ValidateCleanup, RemoveFiles, RemoveFile, RemoveDirectory, At
  <2>2. npc \in CleanupPoints /\ (npc = "cleanup_ok" => pc = "rm_dir")
    BY <1>8, <1>g DEF ValidateCleanup, RemoveFiles, RemoveFile, RemoveDirectory, Points,
                      CleanupPoints, At
  <2>3. First(n)' => First(n)
    <3>1. CASE ValidateCleanup(i, t)
      BY <1>k, <2>1, <3>1 DEF ValidateCleanup, diskVars
    <3>2. CASE RemoveDirectory(i, t)
      BY <2>1, <3>2 DEF RemoveDirectory, First, Verified
    <3>3. CASE RemoveFiles(i, t)
      <4>1. UNCHANGED dirs
            /\ (UNCHANGED files \/ \E f \in FileNames : Store(n, f, "absent"))
        BY <3>3 DEF RemoveFiles, RemoveFile, FileNames
      <4>2. \A f \in FileNames : files'[n][f] \in {files[n][f], "absent"}
        BY <1>0, <2>1, <4>1, StoreFacts DEF FileStates
      <4> QED
        BY <2>1, <4>1, <4>2 DEF First, Verified, FileNames
    <3> QED
      BY <1>8, <3>1, <3>2, <3>3
  <2>4. pc = "rm_dir" => ~First(n)
    BY <1>0, NoEvidenceNoFirst DEF PointOK
  <2>5. StorageEffect(i, t)
    BY <1>o, <1>p, <1>s, <2>1, <2>2, <2>3
    DEF StorageEffect, CleanupPoints, ComparePoints, SessionOf
  <2> QED
    BY <1>o, <1>p, <1>s, <2>1, <2>2, <2>3, <2>4, <2>5
    DEF LifeOK, CleanupPoints, CreatePoints, ComparePoints, SessionOf
<1> QED
  BY <1>1, <1>2, <1>3, <1>4, <1>5, <1>6, <1>7, <1>8 DEF StorageStep, WriteSteps

\* Every other step begins or ends tasks and leaves the disk alone.
LEMMA TaskFrameLife ==
  ASSUME LifeInv, TaskFrame
  PROVE  LifeInv'
<1> SUFFICES ASSUME NEW i \in Instances, NEW t \in Threads PROVE LifeOK(task[i][t])'
  BY DEF LifeInv
<1>2. ~First(None)
  BY ConstantsAssumption DEF First
<1>3. CASE task'[i][t] = task[i][t]
  <2>1. LifeOK(task[i][t]) /\ (First(task[i][t].session) <=> First(task[i][t].session)')
    BY <1>3 DEF TaskFrame, First, Verified, LifeInv
  <2> QED
    BY <1>3, <2>1 DEF LifeOK
<1>4. CASE task'[i][t] = Idle
  BY <1>4, IdleFacts DEF LifeOK
<1>5. CASE task'[i][t].pc = "mkdir" /\ task'[i][t].goal = "start" /\ task'[i][t].session = None
  BY <1>2, <1>5, ConstantsAssumption DEF LifeOK, CreatePoints, First
<1>6. CASE task'[i][t].pc = "read_before" /\ task'[i][t].goal = "finish"
  BY <1>6 DEF LifeOK, ComparePoints
<1>7. CASE task'[i][t].pc = "validate" /\ task'[i][t].goal \in {"cancel", "discard", "recover"}
  BY <1>7 DEF LifeOK, CleanupPoints
<1> QED
  BY <1>3, <1>4, <1>5, <1>6, <1>7 DEF TaskFrame

LEMMA LifeStep ==
  ASSUME ProtocolInv, StorageInv, BaselineInv, LifeInv, [Next]_vars
  PROVE  LifeInv'
<1>1. ASSUME NEW i \in Instances, NEW t \in Threads, StorageStep(i, t) PROVE LifeInv'
  <2>1. LifeOK(task[i][t])' /\ StorageFrame(i, t)
    BY <1>1, StorageLife, StorageStepFrame DEF ProtocolInv
  <2>2. ASSUME NEW j \in Instances, NEW u \in Threads, j # i \/ u # t
        PROVE  LifeOK(task[j][u])'
    <3>1. task'[j][u] = task[j][u] /\ task[j][u].pc = "idle" /\ LifeOK(task[j][u])
      BY <2>1, <2>2, OthersIdle DEF StorageFrame, Busy, At, LifeInv
    <3> QED
      BY <3>1 DEF LifeOK
  <2> QED
    BY <2>1, <2>2 DEF LifeInv
<1>2. ASSUME NEW i \in Instances, NEW t \in Threads, PublishStep(i, t) \/ UserCommand(i, t)
      PROVE  LifeInv'
  BY <1>2, PublishFrame, UserCommandFrame, TaskFrameLife
<1>3. ASSUME NEW i \in Instances,
             ProcessStep(i) \/ Launch(i) \/ RecoveryAborts(i) \/ ExitRequested(i) \/ Crash(i)
      PROVE  LifeInv'
  BY <1>3, ProcessFrame, TaskFrameLife
<1>4. CASE UNCHANGED vars
  <2>1. TaskFrame
    BY <1>4 DEF vars, TaskFrame, StorageInv, OwnSessionInv
  <2> QED
    BY <2>1, TaskFrameLife
<1> QED
  BY <1>1, <1>2, <1>3, <1>4 DEF Next, ThreadStep

-----------------------------------------------------------------------------
(***************************************************************************)
(* What the refinement mapping says of a state.                            *)
(***************************************************************************)

\* A process that does not own the root has nothing of a capture.
LEMMA NotOwner ==
  ASSUME ProtocolInv, StorageInv, NEW j \in Instances, lock # j
  PROVE  /\ stage[j] = "Ready" /\ held[j] = None
         /\ \A u \in Threads : task[j][u].pc = "idle"
<1>1. phase[j] \notin Owning /\ phase[j] \notin Serving
  BY DEF ProtocolInv, OwnerInv, Owning, Serving
<1>2. stage[j] = "Ready" /\ held[j] = None
  BY <1>1 DEF ProtocolInv, OwnerInv
<1>3. phase[j] # "recovering"
  BY <1>1 DEF Owning
<1> QED
  BY <1>1, <1>2, <1>3 DEF ProtocolInv, WorkInv, Busy, At

\* An idle thread has no command and no session.
LEMMA IdleTask ==
  ASSUME StorageInv, LifeInv, NEW j \in Instances, NEW u \in Threads, task[j][u].pc = "idle"
  PROVE  task[j][u].goal = "none" /\ task[j][u].session = None
  BY DEF StorageInv, PointInv, LifeInv, LifeOK, SessionOf

LEMMA MapFacts == ProtocolInv /\ StorageInv /\ LifeInv => MapInv
<1> SUFFICES ASSUME ProtocolInv, StorageInv, LifeInv PROVE MapInv
  OBVIOUS
<1>a. ~First(None) /\ (\A n : First(n) => n \in Sessions)
  BY ConstantsAssumption DEF First
<1>b. LifecycleBaseline = KeptIf(\E n \in Sessions : Current(n) /\ First(n))
  BY DEF LifecycleBaseline, KeptIf, First
<1>1. ASSUME NEW i \in Instances, NEW t \in Threads, Busy(i, t)
      PROVE  /\ LifecycleMode = TaskMode(task[i][t])
             /\ LifecycleBaseline =
                  KeptIf(task[i][t].goal # "recover" /\ First(task[i][t].session))
  <2> DEFINE k == task[i][t]
  <2>1. \A j \in Instances, u \in Threads : j # i \/ u # t =>
          task[j][u].goal = "none" /\ task[j][u].session = None
    BY <1>1, OthersIdle, IdleTask
  <2>2. k.goal # "none" /\ LifeOK(k) /\ k.goal \in Goals
    <3>1. k \in Tasks
      BY DEF ProtocolInv, TypeOK
    <3> QED
      BY <1>1, <3>1 DEF LifeInv, LifeOK, Busy, At, Tasks
  <2>3. \A j \in Instances : held[j] = None
    BY <1>1, NoCaptureWhileBusy, NotOwner DEF ProtocolInv, OwnerInv
  <2>4. ~InStage("Capturing") /\ ~InStage("Results")
    <3>1. ASSUME NEW j \in Instances PROVE stage[j] \notin {"Capturing", "Results"}
      <4>1. CASE j = i
        BY <1>1, <4>1 DEF ProtocolInv, WorkInv, OwnerInv, Serving
      <4>2. CASE j # i
        BY <1>1, <4>2, NoCaptureWhileBusy DEF ProtocolInv, OwnerInv, Owning, Serving
      <4> QED
        BY <4>1, <4>2
    <3> QED
      BY <3>1 DEF InStage
  <2>5. \A g \in Goals \ {"none"} : Doing(g) <=> k.goal = g
    BY <2>1, <2>2 DEF Doing
  <2>6. Comparing <=> k.goal = "finish" /\ k.pc \in ComparePoints
    BY <2>1, <2>2 DEF Comparing, ComparePoints
  <2>7. LifecycleMode = TaskMode(k)
    <3>1. k.goal \in {"start", "finish", "cancel", "discard", "recover"}
      BY <2>2 DEF Goals
    <3>2. /\ Doing("start") <=> k.goal = "start"
          /\ Doing("finish") <=> k.goal = "finish"
          /\ Doing("cancel") <=> k.goal = "cancel"
          /\ Doing("discard") <=> k.goal = "discard"
      BY <2>5 DEF Goals
    <3> QED
      BY <2>4, <2>6, <3>1, <3>2 DEF LifecycleMode, TaskMode
  <2>8. \A n \in Sessions : Current(n) <=> k.goal # "recover" /\ k.session = n
    BY <1>a, <2>1, <2>3, ConstantsAssumption DEF Current, SessionOf
  <2>9. (\E n \in Sessions : Current(n) /\ First(n))
          <=> k.goal # "recover" /\ First(k.session)
    BY <1>a, <2>8
  <2> QED
    BY <1>b, <2>7, <2>9 DEF KeptIf
<1>2. ASSUME \A i \in Instances, t \in Threads : ~Busy(i, t)
      PROVE  /\ LifecycleMode = CASE InStage("Capturing") -> "Capturing"
                                   [] InStage("Results") -> "Results"
                                   [] OTHER -> "Ready"
             /\ \A n \in Sessions : Current(n) <=> \E j \in Instances : held[j] = n
  <2>1. \A j \in Instances, u \in Threads :
          task[j][u].goal = "none" /\ task[j][u].session = None
    BY <1>2, IdleTask DEF Busy, At
  <2>2. /\ ~Doing("start") /\ ~Comparing /\ ~Doing("finish")
        /\ ~Doing("cancel") /\ ~Doing("discard")
    BY <2>1 DEF Doing, Comparing
  <2> QED
    BY <2>1, <2>2, ConstantsAssumption DEF LifecycleMode, Current, SessionOf
<1>3. ASSUME NEW i \in Instances, lock = i, \A t \in Threads : ~Busy(i, t)
      PROVE  LifecycleMode = StageMode(stage[i]) /\ LifecycleBaseline = KeptIf(First(held[i]))
  <2>1. \A j \in Instances \ {i} : stage[j] = "Ready" /\ held[j] = None
                                    /\ \A u \in Threads : ~Busy(j, u)
    BY <1>3, NotOwner DEF Busy, At
  <2>2. \A j \in Instances, u \in Threads : ~Busy(j, u)
    BY <1>3, <2>1
  <2>3. \A s \in {"Capturing", "Results"} : InStage(s) <=> stage[i] = s
    BY <2>1 DEF InStage
  <2>4. LifecycleMode = StageMode(stage[i])
    BY <1>2, <2>2, <2>3 DEF StageMode
  <2>5. \A n \in Sessions : Current(n) <=> held[i] = n
    BY <1>2, <2>1, <2>2, ConstantsAssumption
  <2>6. (\E n \in Sessions : Current(n) /\ First(n)) <=> First(held[i])
    BY <1>a, <2>5
  <2> QED
    BY <1>b, <2>4, <2>6 DEF KeptIf
<1>4. ASSUME lock = None PROVE LifecycleMode = "Ready" /\ LifecycleBaseline = "none"
  <2>1. \A j \in Instances : stage[j] = "Ready" /\ held[j] = None
                              /\ \A u \in Threads : ~Busy(j, u)
    BY <1>4, NotOwner, ConstantsAssumption DEF Busy, At
  <2>2. ~InStage("Capturing") /\ ~InStage("Results")
    BY <2>1 DEF InStage
  <2>3. \A n \in Sessions : ~Current(n)
    BY <1>2, <2>1, ConstantsAssumption
  <2> QED
    BY <1>b, <1>2, <2>1, <2>2, <2>3 DEF KeptIf
<1> QED
  BY <1>1, <1>3, <1>4 DEF MapInv

\* The same of the next state.
LEMMA MapFactsNext == (ProtocolInv /\ StorageInv /\ LifeInv)' => MapInv'
  BY MapFacts, PTL

-----------------------------------------------------------------------------
(***************************************************************************)
(* Every step is a step of the life cycle or invisible to it.              *)
(***************************************************************************)
Invisible == UNCHANGED <<lock, LifecycleMode, LifecycleBaseline>>

\* What a working thread makes of the life cycle.
LEMMA MapBusy ==
  ASSUME ProtocolInv, MapInv, NEW i \in Instances, NEW t \in Threads, Busy(i, t)
  PROVE  /\ lock = i /\ lock # None
         /\ LifecycleMode = TaskMode(task[i][t])
         /\ LifecycleBaseline =
              KeptIf(task[i][t].goal # "recover" /\ First(task[i][t].session))
<1>1. phase[i] \in Owning
  BY DEF ProtocolInv, WorkInv, Owning, Serving
<1>2. lock = i
  BY <1>1 DEF ProtocolInv, OwnerInv
<1> QED
  BY <1>2, ConstantsAssumption DEF MapInv

LEMMA MapBusyNext ==
  ASSUME ProtocolInv', MapInv', NEW i \in Instances, NEW t \in Threads, Busy(i, t)'
  PROVE  /\ lock' = i /\ lock' # None
         /\ LifecycleMode' = TaskMode(task[i][t])'
         /\ LifecycleBaseline' =
              KeptIf(task'[i][t].goal # "recover" /\ First(task[i][t].session)')
<1>1. phase'[i] \in Owning
  BY DEF ProtocolInv, WorkInv, Owning, Serving
<1>2. lock' = i
  BY <1>1 DEF ProtocolInv, OwnerInv
<1> QED
  BY <1>2, ConstantsAssumption DEF MapInv

LEMMA StorageLifecycle ==
  ASSUME ProtocolInv, StorageInv, BaselineInv, LifeInv, MapInv, ProtocolInv', LifeInv', MapInv',
         NEW i \in Instances, NEW t \in Threads, StorageStep(i, t)
  PROVE  Lifecycle!Next \/ Invisible
<1> DEFINE goal == task[i][t].goal
           before == First(task[i][t].session)
           after == First(task[i][t].session)'
           comparing == task[i][t].pc \in ComparePoints
           compares == task'[i][t].pc \in ComparePoints
<1>1. StorageFrame(i, t) /\ StorageEffect(i, t)
  BY StorageLife, StorageStepFrame DEF ProtocolInv
<1>2. Busy(i, t) /\ Busy(i, t)' /\ UNCHANGED lock /\ task'[i][t].goal = goal
  BY <1>1 DEF StorageFrame, Busy, At
<1>3. /\ lock # None
      /\ LifecycleMode = TaskMode(task[i][t])
      /\ LifecycleBaseline = KeptIf(goal # "recover" /\ before)
  BY <1>2, MapBusy
<1>4. /\ LifecycleMode' = TaskMode(task[i][t])'
      /\ LifecycleBaseline' = KeptIf(goal # "recover" /\ after)
  BY <1>2, MapBusyNext
<1>5. CASE goal = "recover" \/ ((before <=> after) /\ (goal = "finish" => (comparing <=> compares)))
  <2>1. LifecycleMode' = LifecycleMode
    BY <1>2, <1>3, <1>4, <1>5 DEF TaskMode
  <2>2. LifecycleBaseline' = LifecycleBaseline
    BY <1>3, <1>4, <1>5 DEF KeptIf
  <2> QED
    BY <1>2, <2>1, <2>2 DEF Invisible
<1>6. CASE goal = "start" /\ ~before /\ after
  <2>1. LifecycleMode = "Starting" /\ LifecycleMode' = "Starting"
    BY <1>2, <1>3, <1>4, <1>6 DEF TaskMode
  <2>2. LifecycleBaseline = "none" /\ LifecycleBaseline' = "kept"
    BY <1>3, <1>4, <1>6 DEF KeptIf
  <2>3. Lifecycle!Keep
    BY <1>2, <2>1, <2>2 DEF Lifecycle!Keep
  <2> QED
    BY <1>3, <2>3 DEF Lifecycle!Next, Lifecycle!Serve
<1>7. CASE /\ goal \in {"finish", "cancel", "discard"} /\ before /\ ~after
           /\ goal = "finish" => ~comparing /\ ~compares
  <2>1. /\ LifecycleMode \in {"Compared", "DiscardingCapture", "DiscardingResults"}
        /\ LifecycleMode' = LifecycleMode
    BY <1>2, <1>3, <1>4, <1>7 DEF TaskMode
  <2>2. LifecycleBaseline = "kept" /\ LifecycleBaseline' = "none"
    BY <1>3, <1>4, <1>7 DEF KeptIf
  <2>3. Lifecycle!GiveUp
    BY <1>2, <2>1, <2>2 DEF Lifecycle!GiveUp
  <2> QED
    BY <1>3, <2>3 DEF Lifecycle!Next, Lifecycle!Serve
<1>8. CASE goal = "finish" /\ comparing /\ ~compares /\ before /\ after
  <2>1. LifecycleMode = "Comparing" /\ LifecycleMode' = "Compared"
    BY <1>2, <1>3, <1>4, <1>8 DEF TaskMode
  <2>2. LifecycleBaseline = "kept" /\ LifecycleBaseline' = "kept"
    BY <1>3, <1>4, <1>8 DEF KeptIf
  <2>3. Lifecycle!CompareSucceeded
    BY <1>2, <2>1, <2>2 DEF Lifecycle!CompareSucceeded, Lifecycle!Move
  <2> QED
    BY <1>3, <2>3 DEF Lifecycle!Next, Lifecycle!Serve
<1> QED
  BY <1>1, <1>5, <1>6, <1>7, <1>8 DEF StorageEffect

\* A process between two commands is in the state of its stage.
LEMMA MapStable ==
  ASSUME ProtocolInv, MapInv, NEW i \in Instances, phase[i] \in Serving,
         stage[i] \in {"Ready", "Capturing", "Results"}
  PROVE  /\ lock = i /\ lock # None
         /\ LifecycleMode = stage[i] /\ LifecycleBaseline = KeptIf(First(held[i]))
<1>1. lock = i /\ phase[i] # "recovering"
  BY DEF ProtocolInv, OwnerInv, Owning, Serving
<1>2. \A t \in Threads : ~Busy(i, t)
  BY <1>1 DEF ProtocolInv, WorkInv
<1> QED
  BY <1>1, <1>2, ConstantsAssumption DEF MapInv, StageMode

LEMMA MapStableNext ==
  ASSUME ProtocolInv', MapInv', NEW i \in Instances, phase'[i] \in Serving,
         stage'[i] \in {"Ready", "Capturing", "Results"}
  PROVE  /\ lock' = i
         /\ LifecycleMode' = stage'[i] /\ LifecycleBaseline' = KeptIf(First(held[i])')
<1>1. lock' = i /\ phase'[i] # "recovering"
  BY DEF ProtocolInv, OwnerInv, Owning, Serving
<1>2. \A t \in Threads : ~Busy(i, t)'
  BY <1>1 DEF ProtocolInv, WorkInv
<1> QED
  BY <1>1, <1>2 DEF MapInv, StageMode

\* A claim takes the session, with its first Snapshot, out of the stage.
LEMMA ClaimLifecycle ==
  ASSUME ProtocolInv, MapInv, ProtocolInv', MapInv',
         NEW i \in Instances, NEW t \in Threads, NEW to \in {"Starting", "Finishing"},
         NEW pc \in {"mkdir", "read_before", "validate"}, NEW n \in Names \union {None},
         NEW goal \in {"start", "finish", "cancel", "discard"},
         goal = "finish" => pc = "read_before",
         stage[i] \in {"Ready", "Capturing", "Results"}, First(n) <=> First(held[i]),
         Claim(i, t, to, n, pc, goal), UNCHANGED diskVars
  PROVE  /\ lock # None /\ UNCHANGED <<lock, LifecycleBaseline>>
         /\ LifecycleMode = stage[i]
         /\ LifecycleMode' = CASE goal = "start"   -> "Starting"
                               [] goal = "finish"  -> "Comparing"
                               [] goal = "cancel"  -> "DiscardingCapture"
                               [] goal = "discard" -> "DiscardingResults"
<1>1. /\ lock # None /\ LifecycleMode = stage[i] /\ LifecycleBaseline = KeptIf(First(n))
  BY MapStable DEF Claim, KeptIf
<1>2. task'[i][t].pc = pc /\ task'[i][t].session = n /\ task'[i][t].goal = goal
  <2>1. pc \in Points /\ goal \in Goals
    BY DEF Points, Goals
  <2>2. /\ task'[i][t].pc = pc /\ task'[i][t].session = n /\ task'[i][t].goal = goal
        /\ \A j \in Instances, u \in Threads : j # i \/ u # t => task'[j][u] = task[j][u]
        /\ stage'[i] = to /\ held'[i] = None
        /\ \A j \in Instances : j # i => stage'[j] = stage[j] /\ held'[j] = held[j]
    BY <2>1, ClaimEffect
  <2> QED
    BY <2>2
<1>3. Busy(i, t)'
  BY <1>2 DEF Busy, At
<1>4. /\ LifecycleMode' = TaskMode(task[i][t])'
      /\ LifecycleBaseline' =
           KeptIf(task'[i][t].goal # "recover" /\ First(task[i][t].session)')
  BY <1>3, MapBusyNext
<1>5. First(task[i][t].session)' <=> First(n)
  BY <1>2 DEF First, Verified, diskVars
<1>6. LifecycleBaseline' = LifecycleBaseline
  BY <1>1, <1>2, <1>4, <1>5 DEF KeptIf
<1>7. LifecycleMode' = CASE goal = "start"   -> "Starting"
                         [] goal = "finish"  -> "Comparing"
                         [] goal = "cancel"  -> "DiscardingCapture"
                         [] goal = "discard" -> "DiscardingResults"
  BY <1>2, <1>4 DEF TaskMode, ComparePoints
<1> QED
  BY <1>1, <1>6, <1>7 DEF diskVars

LEMMA CommandLifecycle ==
  ASSUME ProtocolInv, MapInv, ProtocolInv', MapInv',
         NEW i \in Instances, NEW t \in Threads, UserCommand(i, t) \/ CancelCommand(i, t)
  PROVE  Lifecycle!Next
<1>0. held[i] \in Names \union {None} /\ (stage[i] = "Ready" => held[i] = None)
  BY DEF ProtocolInv, TypeOK, OwnerInv
<1>1. CASE StartCommand(i, t)
  <2>1. /\ lock # None /\ UNCHANGED <<lock, LifecycleBaseline>>
        /\ LifecycleMode = "Ready" /\ LifecycleMode' = "Starting"
    BY <1>0, <1>1, ClaimLifecycle DEF StartCommand
  <2>2. Lifecycle!Start
    BY <2>1 DEF Lifecycle!Start, Lifecycle!Move
  <2> QED
    BY <2>1, <2>2 DEF Lifecycle!Next, Lifecycle!Serve
<1>2. CASE FinishCommand(i, t)
  <2>1. /\ lock # None /\ UNCHANGED <<lock, LifecycleBaseline>>
        /\ LifecycleMode = "Capturing" /\ LifecycleMode' = "Comparing"
    BY <1>0, <1>2, ClaimLifecycle DEF FinishCommand
  <2>2. Lifecycle!Compare
    BY <2>1 DEF Lifecycle!Compare, Lifecycle!Move
  <2> QED
    BY <2>1, <2>2 DEF Lifecycle!Next, Lifecycle!Serve
<1>3. CASE CancelCapturing(i, t)
  <2>1. /\ lock # None /\ UNCHANGED <<lock, LifecycleBaseline>>
        /\ LifecycleMode = "Capturing" /\ LifecycleMode' = "DiscardingCapture"
    BY <1>0, <1>3, ClaimLifecycle DEF CancelCapturing
  <2>2. Lifecycle!Cancel
    BY <2>1 DEF Lifecycle!Cancel, Lifecycle!Move
  <2> QED
    BY <2>1, <2>2 DEF Lifecycle!Next, Lifecycle!Serve
<1>4. CASE CancelResults(i, t)
  <2>1. /\ lock # None /\ UNCHANGED <<lock, LifecycleBaseline>>
        /\ LifecycleMode = "Results" /\ LifecycleMode' = "DiscardingResults"
    BY <1>0, <1>4, ClaimLifecycle DEF CancelResults
  <2>2. Lifecycle!RetryCleanup
    BY <2>1 DEF Lifecycle!RetryCleanup, Lifecycle!Move
  <2> QED
    BY <2>1, <2>2 DEF Lifecycle!Next, Lifecycle!Serve
<1>5. CASE LeaveResults(i, t)
  <2>1. /\ lock # None /\ LifecycleMode = "Results" /\ LifecycleBaseline = KeptIf(First(None))
    BY <1>5, MapStable DEF LeaveResults
  <2>2. stage'[i] = "Ready" /\ held'[i] = None /\ phase'[i] \in Serving /\ lock' = lock
    BY <1>5 DEF LeaveResults, ProtocolInv, TypeOK, diskVars
  <2>3. LifecycleMode' = "Ready" /\ LifecycleBaseline' = KeptIf(First(held[i])')
    BY <2>2, MapStableNext
  <2>4. ~First(None) /\ ~First(held[i])'
    BY <2>2, ConstantsAssumption DEF First
  <2>5. Lifecycle!Leave
    BY <2>1, <2>2, <2>3, <2>4 DEF Lifecycle!Leave, Lifecycle!Move, KeptIf
  <2> QED
    BY <2>1, <2>5 DEF Lifecycle!Next, Lifecycle!Serve
<1> QED
  BY <1>1, <1>2, <1>3, <1>4, <1>5 DEF UserCommand, CancelCommand

\* A publication gives the session, with its first Snapshot, back to a stage.
LEMMA PublishLifecycle ==
  ASSUME ProtocolInv, LifeInv, MapInv, ProtocolInv', MapInv',
         NEW i \in Instances, NEW t \in Threads, PublishStep(i, t)
  PROVE  Lifecycle!Next
<1> DEFINE k == task[i][t]
           before == First(k.session)
<1>0. LifeOK(k) /\ phase \in [Instances -> Phases]
  BY DEF LifeInv, ProtocolInv, TypeOK
<1>1. k.goal \in {"start", "finish", "cancel", "discard"}
  BY DEF PublishStep, StartSucceeds, StartFails, FinishSucceeds, FinishFails, CancelEnds
<1>2. Busy(i, t)
  BY DEF PublishStep, StartSucceeds, StartFails, FinishSucceeds, FinishFails, CancelEnds, Busy, At
<1>3. /\ lock # None /\ LifecycleMode = TaskMode(k) /\ LifecycleBaseline = KeptIf(before)
      /\ phase[i] \in Serving
  <2>1. /\ lock # None /\ LifecycleMode = TaskMode(k)
        /\ LifecycleBaseline = KeptIf(k.goal # "recover" /\ before)
    BY <1>2, MapBusy
  <2> QED
    BY <1>1, <1>2, <2>1 DEF KeptIf, ProtocolInv, WorkInv
<1>4. ~First(None)
  BY ConstantsAssumption DEF First
\* What the life cycle becomes when a stage is published.
<1>p. ASSUME NEW to \in {"Ready", "Capturing", "Results"}, NEW n, Publish(i, t, to, n),
             phase'[i] \in Serving
      PROVE  LifecycleMode' = to /\ LifecycleBaseline' = KeptIf(First(n)) /\ UNCHANGED lock
  <2>1. stage'[i] = to /\ held'[i] = n /\ UNCHANGED <<dirs, files, lock>>
    <3>1. stage'[i] = to /\ held'[i] = n /\ UNCHANGED <<dirs, files>>
      BY <1>p, PublishEffect
    <3> QED
      BY <1>p, <3>1 DEF Publish, diskVars
  <2>2. First(held[i])' <=> First(n)
    BY <2>1 DEF First, Verified
  <2>3. LifecycleMode' = stage'[i] /\ LifecycleBaseline' = KeptIf(First(held[i])')
    BY <1>p, <2>1, MapStableNext
  <2> QED
    BY <2>1, <2>2, <2>3 DEF KeptIf
<1>5. CASE StartSucceeds(i, t)
  <2>1. before /\ TaskMode(k) = "Starting"
    BY <1>0, <1>5 DEF StartSucceeds, At, LifeOK, TaskMode
  <2>2. LifecycleMode' = "Capturing" /\ LifecycleBaseline' = KeptIf(before) /\ UNCHANGED lock
    BY <1>3, <1>5, <1>p DEF StartSucceeds, SessionOf
  <2>3. Lifecycle!Started
    BY <1>3, <2>1, <2>2 DEF Lifecycle!Started, Lifecycle!Move, KeptIf
  <2> QED
    BY <1>3, <2>3 DEF Lifecycle!Next, Lifecycle!Serve
<1>6. CASE StartFails(i, t)
  <2>1. ~before /\ TaskMode(k) = "Starting"
    BY <1>0, <1>6 DEF StartFails, LifeOK, TaskMode
  <2>2. LifecycleMode' = "Ready" /\ LifecycleBaseline' = KeptIf(First(None)) /\ UNCHANGED lock
    BY <1>3, <1>6, <1>p DEF StartFails
  <2>3. Lifecycle!StartFailed
    BY <1>3, <1>4, <2>1, <2>2 DEF Lifecycle!StartFailed, Lifecycle!Move, KeptIf
  <2> QED
    BY <1>3, <2>3 DEF Lifecycle!Next, Lifecycle!Serve
<1>7. CASE FinishSucceeds(i, t)
  <2>1. TaskMode(k) = "Compared" /\ (k.pc # "cleanup_failed" => ~before)
    BY <1>0, <1>7 DEF FinishSucceeds, LifeOK, TaskMode, ComparePoints
  <2>2. /\ LifecycleMode' = "Results" /\ UNCHANGED lock
        /\ LifecycleBaseline' =
             KeptIf(First(IF At(i, t, "cleanup_failed") THEN k.session ELSE None))
    BY <1>3, <1>7, <1>p DEF FinishSucceeds, SessionOf
  <2>3. LifecycleBaseline' = LifecycleBaseline
    BY <1>3, <1>4, <2>1, <2>2 DEF KeptIf, At
  <2>4. Lifecycle!Show
    BY <1>3, <2>1, <2>2, <2>3 DEF Lifecycle!Show, Lifecycle!Move
  <2> QED
    BY <1>3, <2>4 DEF Lifecycle!Next, Lifecycle!Serve
<1>8. CASE FinishFails(i, t)
  <2>1. TaskMode(k) = "Comparing"
    BY <1>8 DEF FinishFails, At, TaskMode, ComparePoints
  <2>2. LifecycleMode' = "Capturing" /\ LifecycleBaseline' = KeptIf(before) /\ UNCHANGED lock
    BY <1>3, <1>8, <1>p DEF FinishFails, SessionOf
  <2>3. Lifecycle!CompareFailed
    BY <1>3, <2>1, <2>2 DEF Lifecycle!CompareFailed, Lifecycle!Move
  <2> QED
    BY <1>3, <2>3 DEF Lifecycle!Next, Lifecycle!Serve
<1>9. CASE CancelEnds(i, t)
  <2>0. phase'[i] \in Serving
    BY <1>0, <1>3, <1>9 DEF CancelEnds, Serving
  <2>1. TaskMode(k) = IF k.goal = "cancel" THEN "DiscardingCapture" ELSE "DiscardingResults"
    BY <1>9 DEF CancelEnds, TaskMode
  <2>2. CASE At(i, t, "cleanup_ok") /\ Publish(i, t, "Ready", None)
    <3>1. ~before
      BY <1>0, <2>2 DEF LifeOK, At
    <3>2. LifecycleMode' = "Ready" /\ LifecycleBaseline' = KeptIf(First(None)) /\ UNCHANGED lock
      BY <1>p, <2>0, <2>2
    <3>3. Lifecycle!Discarded
      BY <1>3, <1>4, <2>1, <3>1, <3>2 DEF Lifecycle!Discarded, Lifecycle!Move, KeptIf
    <3> QED
      BY <1>3, <3>3 DEF Lifecycle!Next, Lifecycle!Serve
  <2>3. CASE Publish(i, t, IF k.goal = "cancel" THEN "Capturing" ELSE "Results", k.session)
    <3>1. /\ LifecycleMode' = IF k.goal = "cancel" THEN "Capturing" ELSE "Results"
          /\ LifecycleBaseline' = KeptIf(before) /\ UNCHANGED lock
      BY <1>p, <2>0, <2>3
    <3>2. Lifecycle!DiscardFailed
      BY <1>3, <2>1, <3>1 DEF Lifecycle!DiscardFailed, Lifecycle!Move
    <3> QED
      BY <1>3, <3>2 DEF Lifecycle!Next, Lifecycle!Serve
  <2> QED
    BY <1>9, <2>2, <2>3 DEF CancelEnds, SessionOf
<1> QED
  BY <1>5, <1>6, <1>7, <1>8, <1>9 DEF PublishStep

\* The life cycle sees these parts of the state and no others.
LEMMA SeenByLifecycle ==
  ASSUME UNCHANGED <<dirs, files, stage, held, task, lock>>
  PROVE  Invisible
  BY DEF Invisible, LifecycleMode, LifecycleBaseline, Doing, Comparing, InStage, Current,
         SessionOf, Verified

\* Recovery is no part of a capture.
LEMMA MapRecovering ==
  ASSUME ProtocolInv, LifeInv, MapInv, NEW i \in Instances, phase[i] = "recovering"
  PROVE  /\ lock = i /\ lock # None
         /\ LifecycleMode = "Ready" /\ LifecycleBaseline = "none"
<1>1. lock = i /\ stage[i] = "Ready" /\ held[i] = None
  BY DEF ProtocolInv, OwnerInv, Owning, Serving
<1>2. CASE \E t \in Threads : Busy(i, t)
  <2>1. PICK t \in Threads : Busy(i, t)
    BY <1>2
  <2>2. task[i][t].goal = "recover"
    BY <2>1 DEF ProtocolInv, WorkInv, Serving
  <2> QED
    BY <1>1, <2>1, <2>2, MapBusy DEF TaskMode, KeptIf
<1>3. CASE \A t \in Threads : ~Busy(i, t)
  BY <1>1, <1>3, ConstantsAssumption DEF MapInv, StageMode, KeptIf, First
<1> QED
  BY <1>1, <1>2, <1>3, ConstantsAssumption

LEMMA MapRecoveringNext ==
  ProtocolInv' /\ LifeInv' /\ MapInv' =>
    \A i \in Instances : phase'[i] = "recovering" =>
      /\ lock' = i
      /\ LifecycleMode' = "Ready" /\ LifecycleBaseline' = "none"
<1>1. ProtocolInv /\ LifeInv /\ MapInv =>
        \A i \in Instances : phase[i] = "recovering" =>
          lock = i /\ LifecycleMode = "Ready" /\ LifecycleBaseline = "none"
  BY MapRecovering
<1>2. (ProtocolInv /\ LifeInv /\ MapInv =>
        \A i \in Instances : phase[i] = "recovering" =>
          lock = i /\ LifecycleMode = "Ready" /\ LifecycleBaseline = "none")'
  BY <1>1, PTL
<1> QED
  BY <1>2

LEMMA ProcessLifecycle ==
  ASSUME ProtocolInv, StorageInv, LifeInv, MapInv, ProtocolInv', LifeInv', MapInv',
         NEW i \in Instances,
         ProcessStep(i) \/ Launch(i) \/ RecoveryAborts(i) \/ ExitRequested(i) \/ Crash(i)
  PROVE  Lifecycle!Next \/ Invisible
<1>0. phase \in [Instances -> Phases] /\ stage \in [Instances -> Stages]
  BY DEF ProtocolInv, TypeOK
\* The owner ends, and with it its capture.
<1>r. ASSUME lock # None, lock' = None PROVE Lifecycle!Next
  <2>1. LifecycleMode' = "Ready" /\ LifecycleBaseline' = "none"
    BY <1>r DEF MapInv
  <2>2. Lifecycle!Release
    BY <1>r, <2>1 DEF Lifecycle!Release
  <2> QED
    BY <2>2 DEF Lifecycle!Next
<1>1. CASE AcquireLock(i)
  <2>1. CASE lock = None /\ lock' = i /\ phase' = [phase EXCEPT ![i] = "recovering"]
    <3>1. LifecycleMode = "Ready" /\ LifecycleBaseline = "none"
      BY <2>1 DEF MapInv
    <3>2. phase'[i] = "recovering"
      BY <1>0, <2>1
    <3>3. LifecycleMode' = "Ready" /\ LifecycleBaseline' = "none"
      BY <3>2, MapRecoveringNext
    <3>4. Lifecycle!Acquire
      BY <2>1, <3>1, <3>3 DEF Lifecycle!Acquire
    <3> QED
      BY <3>4 DEF Lifecycle!Next
  <2>2. CASE UNCHANGED lock
    BY <1>1, <2>2, SeenByLifecycle DEF AcquireLock
  <2> QED
    BY <1>1, <2>1, <2>2 DEF AcquireLock
<1>2. CASE RecoverEntry(i) \/ RecoverEntryEnds(i)
  <2>1. phase[i] = "recovering" /\ UNCHANGED <<phase, lock>>
    <3>1. CASE RecoverEntry(i)
      BY <3>1 DEF RecoverEntry, diskVars, procVars
    <3>2. CASE RecoverEntryEnds(i)
      <4>1. Busy(i, Main) /\ task[i][Main].goal = "recover" /\ Main \in Threads
        BY <3>2 DEF RecoverEntryEnds, Busy, At, Threads
      <4> QED
        BY <3>2, <4>1 DEF RecoverEntryEnds, ProtocolInv, WorkInv, diskVars
    <3> QED
      BY <1>2, <3>1, <3>2
  <2>2. LifecycleMode = "Ready" /\ LifecycleBaseline = "none"
    BY <2>1, MapRecovering
  <2>3. LifecycleMode' = "Ready" /\ LifecycleBaseline' = "none"
    BY <2>1, MapRecoveringNext
  <2> QED
    BY <2>1, <2>2, <2>3 DEF Invisible
<1>3. CASE RecoveryEnds(i) \/ Launch(i) \/ ExitRequested(i)
  BY <1>3, SeenByLifecycle DEF RecoveryEnds, Launch, ExitRequested, diskVars
<1>4. CASE ExitCancel(i)
  BY <1>4, CommandLifecycle DEF ExitCancel, Threads
<1>5. CASE ExitWithoutCleanup(i)
  <2>1. CASE stage[i] = "Results"
    <3>1. /\ phase[i] \in Serving /\ held[i] = None
          /\ UNCHANGED <<lock, held>>
          /\ stage' = [stage EXCEPT ![i] = "Ready"] /\ phase' = [phase EXCEPT ![i] = "stopped"]
      BY <1>5, <2>1 DEF ExitWithoutCleanup, Serving, diskVars
    <3>2. phase'[i] \in Serving /\ stage'[i] = "Ready" /\ held'[i] = None
      BY <1>0, <3>1 DEF Serving
    <3>3. lock # None /\ LifecycleMode = "Results" /\ LifecycleBaseline = KeptIf(First(held[i]))
      BY <2>1, <3>1, MapStable
    <3>4. LifecycleMode' = "Ready" /\ LifecycleBaseline' = KeptIf(First(held[i])')
      BY <3>2, MapStableNext
    <3>5. ~First(held[i]) /\ ~First(held[i])'
      BY <3>1, <3>2, ConstantsAssumption DEF First
    <3>6. Lifecycle!Leave
      BY <3>1, <3>3, <3>4, <3>5 DEF Lifecycle!Leave, Lifecycle!Move, KeptIf
    <3> QED
      BY <3>3, <3>6 DEF Lifecycle!Next, Lifecycle!Serve
  <2>2. CASE stage[i] # "Results"
    BY <1>5, <2>2, SeenByLifecycle DEF ExitWithoutCleanup, diskVars
  <2> QED
    BY <2>1, <2>2
<1>6. CASE ProcessGone(i)
  <2>1. CASE lock = i
    BY <1>6, <1>r, <2>1, ConstantsAssumption DEF ProcessGone
  <2>2. CASE lock # i
    <3>1. stage[i] = "Ready" /\ held[i] = None /\ \A t \in Threads : task[i][t] = Idle
      <4>1. ASSUME NEW t \in Threads PROVE task[i][t] = Idle
        <5>1. task[i][t] \in Tasks /\ task[i][t].pc = "idle"
          BY <2>2, NotOwner DEF ProtocolInv, TypeOK
        <5>2. task[i][t].goal = "none" /\ task[i][t].session = None
          BY <5>1, IdleTask
        <5> QED
          BY <5>1, <5>2 DEF Tasks, Idle
      <4> QED
        BY <2>2, <4>1, NotOwner
    <3>2. UNCHANGED <<stage, held, lock, dirs, files>>
      BY <1>6, <2>2, <3>1 DEF ProcessGone, ProtocolInv, TypeOK
    <3>3. UNCHANGED task
      <4>1. task[i] = [t \in Threads |-> Idle]
        BY <3>1 DEF ProtocolInv, TypeOK
      <4> QED
        BY <1>6, <4>1 DEF ProcessGone, ProtocolInv, TypeOK
    <3> QED
      BY <3>2, <3>3, SeenByLifecycle
  <2> QED
    BY <2>1, <2>2
<1>7. CASE RecoveryAborts(i)
  <2>1. lock # None
    BY <1>7, MapRecovering DEF RecoveryAborts
  <2> QED
    BY <1>7, <1>r, <2>1 DEF RecoveryAborts
<1> QED
  BY <1>1, <1>2, <1>3, <1>4, <1>5, <1>6, <1>7 DEF ProcessStep, Terminate, Crash

LEMMA LifecycleStep ==
  ASSUME ProtocolInv, StorageInv, BaselineInv, LifeInv, [Next]_vars
  PROVE  [Lifecycle!Next]_<<lock, LifecycleMode, LifecycleBaseline>>
<1>1. ProtocolInv' /\ StorageInv' /\ LifeInv'
  BY ProtocolStep, StorageInvStep, LifeStep
<1>2. MapInv /\ MapInv'
  BY <1>1, MapFacts, MapFactsNext
<1>3. ASSUME NEW i \in Instances, NEW t \in Threads, StorageStep(i, t)
      PROVE  Lifecycle!Next \/ Invisible
  BY <1>1, <1>2, <1>3, StorageLifecycle
<1>4. ASSUME NEW i \in Instances, NEW t \in Threads, PublishStep(i, t) \/ UserCommand(i, t)
      PROVE  Lifecycle!Next
  BY <1>1, <1>2, <1>4, PublishLifecycle, CommandLifecycle
<1>5. ASSUME NEW i \in Instances,
             ProcessStep(i) \/ Launch(i) \/ RecoveryAborts(i) \/ ExitRequested(i) \/ Crash(i)
      PROVE  Lifecycle!Next \/ Invisible
  BY <1>1, <1>2, <1>5, ProcessLifecycle
<1>6. UNCHANGED vars => Invisible
  BY SeenByLifecycle DEF vars
<1> QED
  BY <1>3, <1>4, <1>5, <1>6 DEF Next, ThreadStep, Invisible

LEMMA LifecycleInit == Init => Lifecycle!Init
<1> SUFFICES ASSUME Init PROVE Lifecycle!Init
  OBVIOUS
<1>1. lock = None /\ MapInv
  BY ProtocolInit, StorageInit, LifeInit, MapFacts DEF Init
<1> QED
  BY <1>1 DEF MapInv, Lifecycle!Init

\* The session as it is written, thread by thread and file by file, with every
\* failure and crash, keeps the promises of CaptureLifecycle, whatever the number
\* of processes, threads and sessions (session.rs and storage.rs as a whole).
THEOREM LifecycleImplemented == Spec => ImplementsLifecycle
<1>1. Init => ProtocolInv /\ StorageInv /\ BaselineInv /\ LifeInv
  BY ProtocolInit, StorageInit, EvidenceInit, LifeInit
<1>2. ProtocolInv /\ StorageInv /\ BaselineInv /\ LifeInv /\ [Next]_vars
        => (ProtocolInv /\ StorageInv /\ BaselineInv /\ LifeInv)'
  BY ProtocolStep, StorageInvStep, BaselineStep, LifeStep
<1>3. ProtocolInv /\ StorageInv /\ BaselineInv /\ LifeInv /\ [Next]_vars
        => [Lifecycle!Next]_<<lock, LifecycleMode, LifecycleBaseline>>
  BY LifecycleStep
<1> QED
  BY <1>1, <1>2, <1>3, LifecycleInit, PTL
  DEF Spec, ImplementsLifecycle, Lifecycle!Spec, Lifecycle!vars
=============================================================================
