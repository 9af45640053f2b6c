---------------------- MODULE ConfigDistributionProofs ----------------------
(***************************************************************************)
(* Proofs about ConfigDistribution, for any number of gateways, savers,     *)
(* sections and writes: the snapshots that reach the data plane and the     *)
(* history are torn towards newer content only, and an equal version means  *)
(* equal content.                                                           *)
(***************************************************************************)
EXTENDS ConfigDistribution, TLAPS

USE ConfigAssumption

-----------------------------------------------------------------------------
(***************************************************************************)
(* The inductive invariant.  SnapshotsNotOlder speaks of finished snapshots *)
(* only; a step of Snapshot builds on what its earlier statements read, so  *)
(* the claim is needed of reads in progress, section by section.            *)
(***************************************************************************)
\* Section i had the value x in some generation since v.
LiveSince(v, i, x) == \E k \in v..generation : x = log[k][i]

\* The config tables hold what the last write committed.
CurrentLogged == content = log[generation]

\* The sections a read has got so far were live since the version it read first.
ReadSound(read) ==
  read.at > 0 =>
    /\ read.snapshot.version \in 0..generation
    /\ \A i \in Section :
         i < read.at => LiveSince(read.snapshot.version, i, read.snapshot.content[i])

ReadsSound ==
  /\ \A s \in Saver : ReadSound(saver[s].read)
  /\ \A g \in Gateway : ReadSound(fetch[g].read)

ConfigInv == ConfigTypeOK /\ CurrentLogged /\ ReadsSound /\ SnapshotsNotOlder

-----------------------------------------------------------------------------
(***************************************************************************)
(* Type correctness.                                                        *)
(***************************************************************************)
\* The numbers 0 and -1 have their places, and the empty values are well formed.
LEMMA EmptyValues ==
  /\ 0 \in Generation
  /\ InitialContent \in Content
  /\ EmptySnapshot \in Snapshot
  /\ NewRead \in Read
  /\ Idle \in Task
  <1>1. 0 \in Generation
    BY DEF Generation
  <1>2. InitialContent \in Content
    BY <1>1 DEF InitialContent, Content
  <1>3. EmptySnapshot \in Snapshot
    BY <1>2 DEF EmptySnapshot, Snapshot
  <1>4. NewRead \in Read
    BY <1>3 DEF NewRead, Read
  <1>5. Idle \in Task
    BY <1>4 DEF Idle, Task
  <1> QED BY <1>1, <1>2, <1>3, <1>4, <1>5

LEMMA ConfigInitType == ConfigInit => ConfigTypeOK
  BY EmptyValues DEF ConfigInit, ConfigTypeOK

\* One statement of Snapshot: the version first, then section read.at.
LEMMA ReadNextEffect ==
  ASSUME ConfigTypeOK, NEW read \in Read, read.at <= NSections
  PROVE  /\ ReadNext(read) \in Read
         /\ ReadNext(read).at = read.at + 1
         /\ read.at = 0 => ReadNext(read).snapshot.version = generation
         /\ read.at > 0 =>
              /\ ReadNext(read).snapshot.version = read.snapshot.version
              /\ read.at \in Section
              /\ ReadNext(read).snapshot.content
                   = [read.snapshot.content EXCEPT ![read.at] = content[read.at]]
  <1>0. /\ read.at \in 0..NSections + 1
        /\ read.snapshot \in Snapshot
        /\ read.snapshot.version \in Generation \cup {NoVersion}
        /\ read.snapshot.content \in Content
        /\ generation \in Generation
    BY DEF Read, Snapshot, ConfigTypeOK
  <1>1. CASE read.at = 0
    <2>1. ReadNext(read) = [read EXCEPT !.at = 1, !.snapshot.version = generation]
      BY <1>1 DEF ReadNext
    <2>2. [read.snapshot EXCEPT !.version = generation] \in Snapshot
      BY <1>0 DEF Snapshot
    <2>3. 1 \in 0..NSections + 1
      OBVIOUS
    <2>4. ReadNext(read) \in Read
      BY <2>1, <2>2, <2>3 DEF Read
    <2>5. /\ ReadNext(read).at = 1
          /\ ReadNext(read).snapshot = [read.snapshot EXCEPT !.version = generation]
      BY <2>1 DEF Read
    <2>6. ReadNext(read).snapshot.version = generation
      BY <1>0, <2>5 DEF Snapshot
    <2> QED BY <1>1, <2>4, <2>5, <2>6
  <1>2. CASE read.at > 0
    <2> DEFINE c == [read.snapshot.content EXCEPT ![read.at] = content[read.at]]
    <2>1. ReadNext(read) =
            [read EXCEPT !.at = @ + 1,
                         !.snapshot.content[read.at] = content[read.at]]
      BY <1>2 DEF ReadNext
    <2>2. read.at \in Section
      BY <1>0, <1>2 DEF Section
    <2>3. c \in Content
      BY <1>0, <2>2 DEF ConfigTypeOK, Content
    <2>4. [read.snapshot EXCEPT !.content = c] \in Snapshot
      <3> HIDE DEF c
      <3> QED BY <1>0, <2>3 DEF Snapshot
    <2>5. read.at + 1 \in 0..NSections + 1
      BY <1>0
    <2>6. /\ ReadNext(read).at = read.at + 1
          /\ ReadNext(read).snapshot = [read.snapshot EXCEPT !.content = c]
          /\ ReadNext(read) = [read EXCEPT !.at = read.at + 1,
                                 !.snapshot = [read.snapshot EXCEPT !.content = c]]
      BY <2>1 DEF Read
    <2> HIDE DEF c
    <2>7. ReadNext(read) \in Read
      BY <2>4, <2>5, <2>6 DEF Read
    <2>8. /\ ReadNext(read).snapshot.version = read.snapshot.version
          /\ ReadNext(read).snapshot.content = c
      BY <1>0, <2>6 DEF Snapshot
    <2> QED BY <1>2, <2>2, <2>6, <2>7, <2>8 DEF c
  <1> QED BY <1>0, <1>1, <1>2

\* What a commit stores is well formed.
LEMMA CommitType ==
  ASSUME ConfigTypeOK, NEW c \in Content, Commit(c)
  PROVE  /\ generation' \in Generation
         /\ content' \in Content
         /\ log' \in [Generation -> Content]
  <1>1. generation \in Nat /\ generation + 1 \in Generation
    BY DEF ConfigTypeOK, Commit, Generation
  <1> QED BY <1>1 DEF ConfigTypeOK, Commit

\* Mutate and Rollback commit well-formed content.
LEMMA WriteContent ==
  ASSUME ConfigTypeOK
  PROVE  /\ \A i \in Section :
              generation < MaxGeneration => [content EXCEPT ![i] = generation + 1] \in Content
         /\ \A v \in Generation : history[v] \subseteq Content
  <1>1. ASSUME NEW i \in Section, generation < MaxGeneration
        PROVE  [content EXCEPT ![i] = generation + 1] \in Content
    BY <1>1 DEF ConfigTypeOK, Content, Generation
  <1>2. ASSUME NEW v \in Generation
        PROVE  history[v] \subseteq Content
    BY <1>2 DEF ConfigTypeOK
  <1> QED BY <1>1, <1>2

\* A task that is started, or that executes one statement, is a task.
LEMMA TaskStep ==
  ASSUME ConfigTypeOK, NEW task \in Task
  PROVE  /\ [task EXCEPT !.busy = TRUE] \in Task
         /\ [task EXCEPT !.busy = TRUE].read = task.read
         /\ Reading(task) =>
              /\ [task EXCEPT !.read = ReadNext(@)] \in Task
              /\ [task EXCEPT !.read = ReadNext(@)].read = ReadNext(task.read)
  <1>1. task.busy \in BOOLEAN /\ task.read \in Read
    BY DEF Task
  <1>2. [task EXCEPT !.busy = TRUE] \in Task
        /\ [task EXCEPT !.busy = TRUE].read = task.read
    BY DEF Task
  <1>3. ASSUME Reading(task)
        PROVE  /\ [task EXCEPT !.read = ReadNext(@)] \in Task
               /\ [task EXCEPT !.read = ReadNext(@)].read = ReadNext(task.read)
    <2>1. ReadNext(task.read) \in Read
      BY <1>1, <1>3, ReadNextEffect DEF Reading
    <2> QED BY <2>1 DEF Task
  <1> QED BY <1>2, <1>3

LEMMA ConfigNextType == ConfigTypeOK /\ [ConfigNext]_vars => ConfigTypeOK'
  <1> SUFFICES ASSUME ConfigTypeOK, [ConfigNext]_vars
               PROVE  ConfigTypeOK'
    OBVIOUS
  <1>1. ASSUME NEW i \in Section, Mutate(i)
        PROVE  ConfigTypeOK'
    <2>1. [content EXCEPT ![i] = generation + 1] \in Content
      BY <1>1, WriteContent DEF Mutate, Commit
    <2>2. /\ generation' \in Generation
          /\ content' \in Content
          /\ log' \in [Generation -> Content]
      BY <1>1, <2>1, CommitType DEF Mutate
    <2>3. saver' \in [Saver -> Task]
      <3>1. CASE UNCHANGED saver
        BY <3>1 DEF ConfigTypeOK
      <3>2. ASSUME NEW s \in Saver, saver' = [saver EXCEPT ![s].busy = TRUE]
            PROVE  saver' \in [Saver -> Task]
        <4>1. saver[s] \in Task
          BY DEF ConfigTypeOK
        <4>2. [saver[s] EXCEPT !.busy = TRUE] \in Task
          BY <4>1, TaskStep
        <4>3. saver' = [saver EXCEPT ![s] = [saver[s] EXCEPT !.busy = TRUE]]
          BY <3>2
        <4> QED BY <4>2, <4>3 DEF ConfigTypeOK
      <3> QED BY <1>1, <3>1, <3>2 DEF Mutate
    <2> QED BY <1>1, <2>2, <2>3 DEF Mutate, ConfigTypeOK, gatewayVars
  <1>2. ASSUME NEW v \in Generation, Rollback(v)
        PROVE  ConfigTypeOK'
    <2>1. PICK c \in history[v] : Commit(c)
      BY <1>2 DEF Rollback
    <2>2. c \in Content
      BY WriteContent
    <2>3. /\ generation' \in Generation
          /\ content' \in Content
          /\ log' \in [Generation -> Content]
      BY <2>1, <2>2, CommitType
    <2> QED BY <1>2, <2>3 DEF Rollback, ConfigTypeOK, gatewayVars
  <1>3. ASSUME NEW s \in Saver, SaverReads(s)
        PROVE  ConfigTypeOK'
    <2>1. saver[s] \in Task
      BY DEF ConfigTypeOK
    <2>2. [saver[s] EXCEPT !.read = ReadNext(@)] \in Task
      BY <1>3, <2>1, TaskStep DEF SaverReads
    <2>3. saver' = [saver EXCEPT ![s] = [saver[s] EXCEPT !.read = ReadNext(@)]]
      BY <1>3 DEF SaverReads
    <2>4. saver' \in [Saver -> Task]
      BY <2>2, <2>3 DEF ConfigTypeOK
    <2> QED BY <1>3, <2>4 DEF SaverReads, ConfigTypeOK, adminVars, gatewayVars
  <1>4. ASSUME NEW s \in Saver, SaverSaves(s)
        PROVE  ConfigTypeOK'
    <2>1. saver[s].read.snapshot.content \in Content
      BY DEF ConfigTypeOK, Task, Read, Snapshot
    <2>2. history' \in [Generation -> {{}} \cup {{c} : c \in Content}]
      BY <1>4, <2>1 DEF SaverSaves, ConfigTypeOK
    <2>3. saver' \in [Saver -> Task]
      BY <1>4, EmptyValues DEF SaverSaves, ConfigTypeOK
    <2> QED BY <1>4, <2>2, <2>3 DEF SaverSaves, ConfigTypeOK, gatewayVars
  <1>5. ASSUME NEW g \in Gateway, FetchStarts(g)
        PROVE  ConfigTypeOK'
    <2>1. fetch[g] \in Task
      BY DEF ConfigTypeOK
    <2>2. [fetch[g] EXCEPT !.busy = TRUE] \in Task
      BY <2>1, TaskStep
    <2>3. fetch' = [fetch EXCEPT ![g] = [fetch[g] EXCEPT !.busy = TRUE]]
      BY <1>5 DEF FetchStarts
    <2>4. fetch' \in [Gateway -> Task]
      BY <2>2, <2>3 DEF ConfigTypeOK
    <2> QED BY <1>5, <2>4 DEF FetchStarts, ConfigTypeOK, adminVars
  <1>6. ASSUME NEW g \in Gateway, FetchReads(g)
        PROVE  ConfigTypeOK'
    <2>1. fetch[g] \in Task
      BY DEF ConfigTypeOK
    <2>2. [fetch[g] EXCEPT !.read = ReadNext(@)] \in Task
      BY <1>6, <2>1, TaskStep DEF FetchReads
    <2>3. fetch' = [fetch EXCEPT ![g] = [fetch[g] EXCEPT !.read = ReadNext(@)]]
      BY <1>6 DEF FetchReads
    <2>4. fetch' \in [Gateway -> Task]
      BY <2>2, <2>3 DEF ConfigTypeOK
    <2> QED BY <1>6, <2>4 DEF FetchReads, ConfigTypeOK, adminVars
  <1>7. ASSUME NEW g \in Gateway, NEW ok \in BOOLEAN, StartReturns(g, ok)
        PROVE  /\ phase' \in [Gateway -> {"starting", "building", "serving"}]
               /\ polling' \in [Gateway -> BOOLEAN]
    BY <1>7 DEF StartReturns, ConfigTypeOK
  <1>8. ASSUME NEW g \in Gateway, FetchEnds(g)
        PROVE  ConfigTypeOK'
    <2>1. fetch[g].read.snapshot \in Snapshot
      BY DEF ConfigTypeOK, Task, Read
    <2>2. store' \in [Gateway -> Snapshot]
      BY <1>8, <2>1 DEF FetchEnds, ConfigTypeOK
    <2>3. fetch' \in [Gateway -> Task]
      BY <1>8, EmptyValues DEF FetchEnds, ConfigTypeOK
    <2>4. /\ phase' \in [Gateway -> {"starting", "building", "serving"}]
          /\ polling' \in [Gateway -> BOOLEAN]
      BY <1>7, <1>8 DEF FetchEnds
    <2> QED BY <1>8, <2>2, <2>3, <2>4 DEF FetchEnds, ConfigTypeOK, adminVars
  <1>9. ASSUME NEW g \in Gateway, FetchFails(g)
        PROVE  ConfigTypeOK'
    <2>1. fetch' \in [Gateway -> Task]
      BY <1>9, EmptyValues DEF FetchFails, ConfigTypeOK
    <2>2. /\ phase' \in [Gateway -> {"starting", "building", "serving"}]
          /\ polling' \in [Gateway -> BOOLEAN]
      BY <1>7, <1>9 DEF FetchFails
    <2> QED BY <1>9, <2>1, <2>2 DEF FetchFails, ConfigTypeOK, adminVars
  <1>10. ASSUME NEW g \in Gateway, Build(g) \/ Refresh(g)
         PROVE  ConfigTypeOK'
    <2>1. Rebuilt(g) \in Snapshot
      BY DEF Rebuilt, ConfigTypeOK
    <2>2. dispatcher' \in [Gateway -> Snapshot]
      BY <1>10, <2>1 DEF Build, Refresh, ConfigTypeOK
    <2>3. phase' \in [Gateway -> {"starting", "building", "serving"}]
      BY <1>10 DEF Build, Refresh, ConfigTypeOK
    <2> QED BY <1>10, <2>2, <2>3 DEF Build, Refresh, ConfigTypeOK, adminVars
  <1>11. CASE AdminFails \/ AdminRecovers
    <2>1. adminUp' \in BOOLEAN
      BY <1>11, Zenon DEF AdminFails, AdminRecovers
    <2>2. \/ outages < MaxOutages /\ outages' = outages + 1
          \/ outages' = outages
      BY <1>11, Zenon DEF AdminFails, AdminRecovers
    <2>3. outages' \in 0..MaxOutages
      BY <2>2 DEF ConfigTypeOK
    <2>4. UNCHANGED <<adminVars, saver, gatewayVars>>
      BY <1>11, Zenon DEF AdminFails, AdminRecovers
    <2> QED BY <2>1, <2>3, <2>4 DEF ConfigTypeOK, adminVars, gatewayVars
  <1>12. CASE UNCHANGED vars
    BY <1>12 DEF vars, ConfigTypeOK, adminVars, gatewayVars
  <1> QED
    BY <1>1, <1>2, <1>3, <1>4, <1>5, <1>6, <1>8, <1>9, <1>10, <1>11, <1>12
    DEF ConfigNext, SaverStep, GatewayStep

\* Every variable keeps to its type (ConfigTypeOK).
THEOREM ConfigTypeCorrect == ConfigSpec => []ConfigTypeOK
  BY ConfigInitType, ConfigNextType, PTL DEF ConfigSpec

-----------------------------------------------------------------------------
(***************************************************************************)
(* The log only grows.                                                      *)
(***************************************************************************)
\* LiveSince, NotOlder and ReadSound of the next state.
LiveNext(v, i, x) == \E k \in v..generation' : x = log'[k][i]

NotOlderNext(snapshot) ==
  snapshot.version # NoVersion =>
    \A i \in Section : LiveNext(snapshot.version, i, snapshot.content[i])

ReadSoundNext(read) ==
  read.at > 0 =>
    /\ read.snapshot.version \in 0..generation'
    /\ \A i \in Section :
         i < read.at => LiveNext(read.snapshot.version, i, read.snapshot.content[i])

\* Generations only go up, and what was live since v still was.
LiveKept ==
  /\ generation' \in Generation
  /\ generation <= generation'
  /\ \A v \in Generation, i \in Section : \A x \in Generation :
       LiveSince(v, i, x) => LiveNext(v, i, x)

\* A commit adds a generation and leaves the earlier ones as they were.
LEMMA CommitKeeps ==
  ASSUME ConfigTypeOK, NEW c \in Content, Commit(c)
  PROVE  LiveKept /\ CurrentLogged'
  <1>1. generation \in Nat /\ generation + 1 \in Generation
    BY DEF ConfigTypeOK, Commit, Generation
  <1>2. CurrentLogged'
    BY <1>1 DEF Commit, CurrentLogged, ConfigTypeOK
  <1>3. ASSUME NEW v \in Generation, NEW k \in v..generation
        PROVE  k \in v..generation' /\ log'[k] = log[k]
    <2>1. k \in Generation /\ k # generation + 1 /\ k <= generation + 1
      BY <1>1, <1>3 DEF Generation
    <2> QED BY <1>1, <1>3, <2>1 DEF Commit, ConfigTypeOK, Generation
  <1>4. generation' \in Generation /\ generation <= generation'
    BY <1>1 DEF Commit
  <1>5. LiveKept
    BY <1>3, <1>4 DEF LiveKept, LiveSince, LiveNext
  <1> QED BY <1>2, <1>5

\* Without a commit nothing moves.
LEMMA StandingKeeps ==
  ASSUME ConfigTypeOK, UNCHANGED <<generation, content, log>>, CurrentLogged
  PROVE  LiveKept /\ CurrentLogged'
  <1>1. generation \in Generation /\ generation \in Nat
    BY DEF ConfigTypeOK, Generation
  <1> QED BY <1>1 DEF LiveKept, LiveSince, LiveNext, CurrentLogged

LEMMA ConfigNextKeeps ==
  ASSUME ConfigTypeOK, CurrentLogged, [ConfigNext]_vars
  PROVE  LiveKept /\ CurrentLogged'
  <1>1. ASSUME NEW i \in Section, Mutate(i)
        PROVE  LiveKept /\ CurrentLogged'
    <2>1. [content EXCEPT ![i] = generation + 1] \in Content
      BY <1>1, WriteContent DEF Mutate, Commit
    <2> QED BY <1>1, <2>1, CommitKeeps DEF Mutate
  <1>2. ASSUME NEW v \in Generation, Rollback(v)
        PROVE  LiveKept /\ CurrentLogged'
    <2>1. PICK c \in history[v] : Commit(c)
      BY <1>2 DEF Rollback
    <2>2. c \in Content
      BY WriteContent
    <2> QED BY <2>1, <2>2, CommitKeeps
  <1>3. CASE UNCHANGED <<generation, content, log>>
    BY <1>3, StandingKeeps
  <1>4. ASSUME NEW s \in Saver, SaverStep(s)
        PROVE  UNCHANGED <<generation, content, log>>
    BY <1>4 DEF SaverStep, SaverReads, SaverSaves, adminVars
  <1>5. ASSUME NEW g \in Gateway, GatewayStep(g)
        PROVE  UNCHANGED <<generation, content, log>>
    BY <1>5 DEF GatewayStep, FetchStarts, FetchReads, FetchEnds, FetchFails, Build,
                Refresh, adminVars
  <1>6. ASSUME AdminFails \/ AdminRecovers
        PROVE  UNCHANGED <<generation, content, log>>
    BY <1>6 DEF AdminFails, AdminRecovers, adminVars
  <1>7. ASSUME UNCHANGED vars
        PROVE  UNCHANGED <<generation, content, log>>
    BY <1>7 DEF vars, adminVars
  <1> QED BY <1>1, <1>2, <1>3, <1>4, <1>5, <1>6, <1>7 DEF ConfigNext

\* A snapshot that is not older stays so, and so does a read in progress.
LEMMA NotOlderKept ==
  ASSUME LiveKept, NEW snapshot \in Snapshot, NotOlder(snapshot)
  PROVE  NotOlderNext(snapshot)
  <1> SUFFICES ASSUME snapshot.version # NoVersion, NEW i \in Section
               PROVE  LiveNext(snapshot.version, i, snapshot.content[i])
    BY DEF NotOlderNext
  <1>1. snapshot.version \in Generation /\ snapshot.content[i] \in Generation
    BY DEF Snapshot, Content
  <1>2. LiveSince(snapshot.version, i, snapshot.content[i])
    BY DEF NotOlder, LiveSince
  <1> QED BY <1>1, <1>2 DEF LiveKept

LEMMA ReadKept ==
  ASSUME ConfigTypeOK, LiveKept, NEW read \in Read, ReadSound(read)
  PROVE  ReadSoundNext(read)
  <1> SUFFICES ASSUME read.at > 0
               PROVE  /\ read.snapshot.version \in 0..generation'
                      /\ \A i \in Section :
                           i < read.at =>
                             LiveNext(read.snapshot.version, i, read.snapshot.content[i])
    BY DEF ReadSoundNext
  <1>1. read.snapshot.version \in 0..generation
    BY DEF ReadSound
  <1>2. read.snapshot.version \in Generation /\ read.snapshot.version \in 0..generation'
    BY <1>1 DEF LiveKept, ConfigTypeOK, Generation
  <1>3. ASSUME NEW i \in Section, i < read.at
        PROVE  LiveNext(read.snapshot.version, i, read.snapshot.content[i])
    <2>1. read.snapshot.content[i] \in Generation
      BY DEF Read, Snapshot, Content
    <2>2. LiveSince(read.snapshot.version, i, read.snapshot.content[i])
      BY <1>3 DEF ReadSound
    <2> QED BY <1>2, <2>1, <2>2 DEF LiveKept
  <1> QED BY <1>2, <1>3

\* A read that has not begun claims nothing.
LEMMA NewReadSound == ReadSoundNext(NewRead) /\ ReadSound(NewRead)
  BY DEF ReadSoundNext, ReadSound, NewRead

\* One statement of Snapshot, executed while the tables stand: the version it
\* reads is the current one, and so is the section.
LEMMA ReadStepSound ==
  ASSUME ConfigTypeOK, CurrentLogged, UNCHANGED <<generation, content, log>>,
         NEW read \in Read, read.at <= NSections, ReadSound(read)
  PROVE  ReadSoundNext(ReadNext(read))
  <1> DEFINE next == ReadNext(read)
  <1>1. /\ read.at \in 0..NSections + 1
        /\ generation \in Generation
    BY DEF Read, ConfigTypeOK
  <1>2. CASE read.at = 0
    <2>0. next.at = read.at + 1 /\ (read.at = 0 => next.snapshot.version = generation)
      BY ReadNextEffect
    <2>1. next.at = 1 /\ next.snapshot.version = generation
      BY <1>2, <2>0
    <2>2. \A i \in Section : ~(i < 1)
      BY DEF Section
    <2>3. generation \in 0..generation'
      BY <1>1 DEF Generation
    <2> QED BY <2>1, <2>2, <2>3 DEF ReadSoundNext
  <1>3. CASE read.at > 0
    <2> DEFINE v == read.snapshot.version
    <2>1. /\ next.at = read.at + 1
          /\ next.snapshot.version = v
          /\ read.at \in Section
          /\ next.snapshot.content
               = [read.snapshot.content EXCEPT ![read.at] = content[read.at]]
      BY <1>3, ReadNextEffect
    <2>2. v \in 0..generation /\ v \in Generation
      BY <1>1, <1>3 DEF ReadSound, Generation
    <2>3. read.snapshot.content \in Content
      BY DEF Read, Snapshot
    <2>4. ReadSoundNext(read)
      BY StandingKeeps, ReadKept
    <2>5. ASSUME NEW i \in Section, i < next.at
          PROVE  LiveNext(v, i, next.snapshot.content[i])
      <3>1. CASE i = read.at
        <4>1. next.snapshot.content[i] = log'[generation'][i]
          BY <2>1, <2>3, <3>1 DEF Content, CurrentLogged
        <4>2. generation' \in v..generation'
          BY <1>1, <2>2 DEF Generation
        <4> QED BY <4>1, <4>2 DEF LiveNext
      <3>2. CASE i < read.at
        <4>1. next.snapshot.content[i] = read.snapshot.content[i]
          BY <2>1, <2>3, <3>2 DEF Content, Section
        <4>2. LiveNext(v, i, read.snapshot.content[i])
          BY <1>3, <2>4, <3>2 DEF ReadSoundNext
        <4> QED BY <4>1, <4>2
      <3> QED BY <1>1, <2>1, <2>5, <3>1, <3>2 DEF Section
    <2>6. v \in 0..generation'
      BY <2>2
    <2> QED BY <2>1, <2>5, <2>6 DEF ReadSoundNext
  <1> QED BY <1>1, <1>2, <1>3

-----------------------------------------------------------------------------
(***************************************************************************)
(* The invariant is inductive: the reads, then what becomes of them.        *)
(***************************************************************************)
\* A task whose read stays, is reset, or executes a statement while the tables
\* stand.
ReadMoves(old, new) ==
  \/ new.read = old.read
  \/ new.read = NewRead
  \/ /\ Reading(old)
     /\ new.read = ReadNext(old.read)
     /\ UNCHANGED <<generation, content, log>>

LEMMA ReadMoveSound ==
  ASSUME ConfigTypeOK, CurrentLogged, LiveKept,
         NEW old \in Task, ReadSound(old.read), NEW new, ReadMoves(old, new)
  PROVE  ReadSoundNext(new.read)
  <1>1. old.read \in Read
    BY DEF Task
  <1>2. CASE new.read = old.read
    <2>1. ReadSoundNext(old.read)
      BY <1>1, ReadKept
    <2> QED BY <1>2, <2>1
  <1>3. CASE new.read = NewRead
    BY <1>3, NewReadSound
  <1>4. CASE /\ Reading(old)
             /\ new.read = ReadNext(old.read)
             /\ UNCHANGED <<generation, content, log>>
    <2>1. ReadSoundNext(ReadNext(old.read))
      BY <1>1, <1>4, ReadStepSound DEF Reading
    <2> QED BY <1>4, <2>1
  <1> QED BY <1>2, <1>3, <1>4 DEF ReadMoves

\* Every saver and every fetch moves in one of these ways.
LEMMA TasksMove ==
  ASSUME ConfigTypeOK, [ConfigNext]_vars
  PROVE  /\ \A s \in Saver : ReadMoves(saver[s], saver'[s])
         /\ \A g \in Gateway : ReadMoves(fetch[g], fetch'[g])
  <1> DEFINE Savers == \A s \in Saver : ReadMoves(saver[s], saver'[s])
             Fetches == \A g \in Gateway : ReadMoves(fetch[g], fetch'[g])
  <1>1. ASSUME UNCHANGED saver PROVE Savers
    BY <1>1 DEF ReadMoves
  <1>2. ASSUME UNCHANGED fetch PROVE Fetches
    BY <1>2 DEF ReadMoves
  <1>3. ASSUME NEW i \in Section, Mutate(i) PROVE Savers /\ Fetches
    <2>1. ASSUME NEW t \in Saver, saver' = [saver EXCEPT ![t].busy = TRUE]
          PROVE  Savers
      <3>1. ASSUME NEW s \in Saver PROVE saver'[s].read = saver[s].read
        BY <2>1, <3>1 DEF ConfigTypeOK, Task
      <3> QED BY <3>1 DEF ReadMoves
    <2> QED BY <1>1, <1>2, <1>3, <2>1 DEF Mutate, gatewayVars
  <1>4. ASSUME NEW v \in Generation, Rollback(v) PROVE Savers /\ Fetches
    BY <1>1, <1>2, <1>4 DEF Rollback, gatewayVars
  <1>5. ASSUME NEW t \in Saver, SaverReads(t) PROVE Savers /\ Fetches
    <2>1. ASSUME NEW s \in Saver PROVE ReadMoves(saver[s], saver'[s])
      <3>1. CASE s = t
        <4>1. saver'[s] = [saver[s] EXCEPT !.read = ReadNext(@)] /\ Reading(saver[s])
          BY <1>5, <3>1 DEF SaverReads, ConfigTypeOK
        <4>2. saver'[s].read = ReadNext(saver[s].read)
          BY <4>1, TaskStep DEF ConfigTypeOK
        <4> QED BY <1>5, <4>1, <4>2 DEF ReadMoves, SaverReads, adminVars
      <3>2. CASE s # t
        BY <1>5, <3>2 DEF SaverReads, ConfigTypeOK, ReadMoves
      <3> QED BY <3>1, <3>2
    <2> QED BY <1>2, <1>5, <2>1 DEF SaverReads, gatewayVars
  <1>6. ASSUME NEW t \in Saver, SaverSaves(t) PROVE Savers /\ Fetches
    <2>1. ASSUME NEW s \in Saver PROVE ReadMoves(saver[s], saver'[s])
      BY <1>6, <2>1 DEF SaverSaves, ConfigTypeOK, ReadMoves, Idle
    <2> QED BY <1>2, <1>6, <2>1 DEF SaverSaves, gatewayVars
  <1>7. ASSUME NEW h \in Gateway, FetchStarts(h) PROVE Savers /\ Fetches
    <2>1. ASSUME NEW g \in Gateway PROVE fetch'[g].read = fetch[g].read
      BY <1>7, <2>1 DEF FetchStarts, ConfigTypeOK, Task
    <2> QED BY <1>1, <1>7, <2>1 DEF FetchStarts, ReadMoves
  <1>8. ASSUME NEW h \in Gateway, FetchReads(h) PROVE Savers /\ Fetches
    <2>1. ASSUME NEW g \in Gateway PROVE ReadMoves(fetch[g], fetch'[g])
      <3>1. CASE g = h
        <4>1. fetch'[g] = [fetch[g] EXCEPT !.read = ReadNext(@)] /\ Reading(fetch[g])
          BY <1>8, <3>1 DEF FetchReads, ConfigTypeOK
        <4>2. fetch'[g].read = ReadNext(fetch[g].read)
          BY <4>1, TaskStep DEF ConfigTypeOK
        <4> QED BY <1>8, <4>1, <4>2 DEF ReadMoves, FetchReads, adminVars
      <3>2. CASE g # h
        BY <1>8, <3>2 DEF FetchReads, ConfigTypeOK, ReadMoves
      <3> QED BY <3>1, <3>2
    <2> QED BY <1>1, <1>8, <2>1 DEF FetchReads
  <1>9. ASSUME NEW h \in Gateway, FetchEnds(h) \/ FetchFails(h) PROVE Savers /\ Fetches
    <2>0. fetch' = [fetch EXCEPT ![h] = Idle] /\ Idle.read = NewRead
      BY <1>9 DEF FetchEnds, FetchFails, Idle
    <2>1. ASSUME NEW g \in Gateway PROVE ReadMoves(fetch[g], fetch'[g])
      <3>1. fetch'[g] = fetch[g] \/ fetch'[g] = Idle
        BY <2>0 DEF ConfigTypeOK
      <3> QED BY <2>0, <3>1 DEF ReadMoves
    <2> QED BY <1>1, <1>9, <2>1 DEF FetchEnds, FetchFails
  <1>10. ASSUME NEW g \in Gateway, Build(g) \/ Refresh(g) PROVE Savers /\ Fetches
    BY <1>1, <1>2, <1>10 DEF Build, Refresh
  <1>11. ASSUME AdminFails \/ AdminRecovers \/ UNCHANGED vars PROVE Savers /\ Fetches
    BY <1>1, <1>2, <1>11 DEF AdminFails, AdminRecovers, vars, gatewayVars
  <1> QED
    BY <1>3, <1>4, <1>5, <1>6, <1>7, <1>8, <1>9, <1>10, <1>11
    DEF ConfigNext, SaverStep, GatewayStep

LEMMA NextReadsSound ==
  ASSUME ConfigTypeOK, CurrentLogged, LiveKept, ReadsSound, [ConfigNext]_vars
  PROVE  ReadsSound'
  <1>1. ASSUME NEW s \in Saver PROVE ReadSoundNext(saver'[s].read)
    BY TasksMove, ReadMoveSound DEF ReadsSound, ConfigTypeOK
  <1>2. ASSUME NEW g \in Gateway PROVE ReadSoundNext(fetch'[g].read)
    BY TasksMove, ReadMoveSound DEF ReadsSound, ConfigTypeOK
  <1> QED BY <1>1, <1>2 DEF ReadsSound, ReadSound, ReadSoundNext, LiveSince, LiveNext

\* A complete read is a snapshot that is not older than its version.
LEMMA CompleteNotOlder ==
  ASSUME NEW task \in Task, Complete(task), ReadSound(task.read)
  PROVE  /\ task.read.snapshot \in Snapshot
         /\ task.read.snapshot.version \in 0..generation
         /\ NotOlder(task.read.snapshot)
  <1>1. task.read.snapshot \in Snapshot
    BY DEF Task, Read
  <1>2. task.read.at = NSections + 1 /\ task.read.at > 0
    BY DEF Complete
  <1>3. \A i \in Section : i < task.read.at
    BY <1>2 DEF Section
  <1> QED BY <1>1, <1>2, <1>3 DEF ReadSound, NotOlder, LiveSince

\* The stores and dispatchers of the next state are ones that were there, or a
\* complete read.
LEMMA NextGatewaysNotOlder ==
  ASSUME ConfigTypeOK, LiveKept, ReadsSound, SnapshotsNotOlder, [ConfigNext]_vars,
         NEW g \in Gateway
  PROVE  NotOlderNext(store'[g]) /\ NotOlderNext(dispatcher'[g])
  <1>1. /\ store[g] \in Snapshot
        /\ dispatcher[g] \in Snapshot
        /\ fetch[g] \in Task
        /\ ReadSound(fetch[g].read)
        /\ NotOlder(store[g])
        /\ NotOlder(dispatcher[g])
    BY DEF ConfigTypeOK, ReadsSound, SnapshotsNotOlder
  <1>2. NotOlderNext(store[g]) /\ NotOlderNext(dispatcher[g])
    BY <1>1, NotOlderKept
  <1>3. store'[g] = store[g] \/ (Complete(fetch[g]) /\ store'[g] = fetch[g].read.snapshot)
    <2>1. UNCHANGED store \/ \E h \in Gateway : FetchEnds(h)
      BY DEF ConfigNext, Mutate, Rollback, SaverStep, SaverReads, SaverSaves,
             GatewayStep, FetchStarts, FetchReads, FetchFails, Build, Refresh,
             AdminFails, AdminRecovers, vars, gatewayVars
    <2>2. ASSUME NEW h \in Gateway, FetchEnds(h)
          PROVE  \/ store'[g] = store[g]
                 \/ Complete(fetch[g]) /\ store'[g] = fetch[g].read.snapshot
      BY <2>2 DEF FetchEnds, ConfigTypeOK
    <2> QED BY <2>1, <2>2
  <1>4. dispatcher'[g] = dispatcher[g] \/ dispatcher'[g] = store[g]
    <2>1. UNCHANGED dispatcher \/ \E h \in Gateway : Build(h) \/ Refresh(h)
      BY DEF ConfigNext, Mutate, Rollback, SaverStep, SaverReads, SaverSaves,
             GatewayStep, FetchStarts, FetchReads, FetchEnds, FetchFails,
             AdminFails, AdminRecovers, vars, gatewayVars
    <2>2. ASSUME NEW h \in Gateway, Build(h) \/ Refresh(h)
          PROVE  dispatcher'[g] = dispatcher[g] \/ dispatcher'[g] = store[g]
      BY <2>2 DEF Build, Refresh, Rebuilt, ConfigTypeOK
    <2> QED BY <2>1, <2>2
  <1>5. CASE Complete(fetch[g]) /\ store'[g] = fetch[g].read.snapshot
    <2>1. NotOlderNext(fetch[g].read.snapshot)
      BY <1>1, <1>5, CompleteNotOlder, NotOlderKept
    <2> QED BY <1>2, <1>4, <1>5, <2>1
  <1> QED BY <1>2, <1>3, <1>4, <1>5

\* A history row of the next state was there, or is the complete read of a saver.
LEMMA NextHistoryNotOlder ==
  ASSUME ConfigTypeOK, LiveKept, ReadsSound, SnapshotsNotOlder, [ConfigNext]_vars,
         NEW v \in Generation, NEW c \in history'[v]
  PROVE  NotOlderNext([version |-> v, content |-> c])
  <1>1. ASSUME c \in history[v]
        PROVE  NotOlderNext([version |-> v, content |-> c])
    <2>1. [version |-> v, content |-> c] \in Snapshot
      BY <1>1, WriteContent DEF Snapshot
    <2>2. NotOlder([version |-> v, content |-> c])
      BY <1>1 DEF SnapshotsNotOlder
    <2> QED BY <2>1, <2>2, NotOlderKept
  <1>2. ASSUME NEW s \in Saver, SaverSaves(s), c \notin history[v]
        PROVE  NotOlderNext([version |-> v, content |-> c])
    <2>1. saver[s] \in Task /\ Complete(saver[s]) /\ ReadSound(saver[s].read)
      BY <1>2 DEF SaverSaves, ConfigTypeOK, ReadsSound
    <2> DEFINE snapshot == saver[s].read.snapshot
    <2>2. snapshot \in Snapshot /\ NotOlder(snapshot)
      BY <2>1, CompleteNotOlder
    <2>3. v = snapshot.version /\ c = snapshot.content
      BY <1>2 DEF SaverSaves, ConfigTypeOK
    <2>4. NotOlderNext(snapshot)
      BY <2>2, NotOlderKept
    <2>5. snapshot = [version |-> v, content |-> c]
      BY <2>2, <2>3 DEF Snapshot
    <2> QED BY <2>4, <2>5
  <1>3. history' = history \/ \E s \in Saver : SaverSaves(s)
    BY DEF ConfigNext, Mutate, Rollback, SaverStep, SaverReads, GatewayStep,
           FetchStarts, FetchReads, FetchEnds, FetchFails, Build, Refresh, AdminFails,
           AdminRecovers, vars, adminVars
  <1> QED BY <1>1, <1>2, <1>3

LEMMA InitConfigInv == ConfigInit => ConfigInv
  <1> SUFFICES ASSUME ConfigInit PROVE ConfigInv
    OBVIOUS
  <1>1. ConfigTypeOK
    BY ConfigInitType
  <1>2. CurrentLogged
    BY EmptyValues DEF ConfigInit, CurrentLogged
  <1>3. ReadsSound
    BY NewReadSound DEF ConfigInit, ReadsSound, Idle
  <1>4. SnapshotsNotOlder
    BY DEF ConfigInit, SnapshotsNotOlder, NotOlder, EmptySnapshot
  <1> QED BY <1>1, <1>2, <1>3, <1>4 DEF ConfigInv

LEMMA NextConfigInv == ConfigInv /\ [ConfigNext]_vars => ConfigInv'
  <1> SUFFICES ASSUME ConfigInv, [ConfigNext]_vars PROVE ConfigInv'
    OBVIOUS
  <1>1. ConfigTypeOK /\ CurrentLogged /\ ReadsSound /\ SnapshotsNotOlder
    BY DEF ConfigInv
  <1>2. ConfigTypeOK'
    BY <1>1, ConfigNextType
  <1>3. LiveKept /\ CurrentLogged'
    BY <1>1, ConfigNextKeeps
  <1>4. ReadsSound'
    BY <1>1, <1>3, NextReadsSound
  <1>5. /\ \A g \in Gateway : NotOlderNext(store'[g]) /\ NotOlderNext(dispatcher'[g])
        /\ \A v \in Generation : \A c \in history'[v] :
             NotOlderNext([version |-> v, content |-> c])
    BY <1>1, <1>3, NextGatewaysNotOlder, NextHistoryNotOlder
  <1>6. SnapshotsNotOlder'
    BY <1>5 DEF SnapshotsNotOlder, NotOlder, NotOlderNext, LiveNext
  <1> QED BY <1>2, <1>3, <1>4, <1>6 DEF ConfigInv

LEMMA ConfigInvHolds == ConfigSpec => []ConfigInv
  BY InitConfigInv, NextConfigInv, PTL DEF ConfigSpec

\* Torn snapshots err towards newer content only: whatever writes and rollbacks
\* commit between the statements of ConfigRepo.Snapshot, each section of a
\* gateway's store, of its dispatcher and of a history row was live in the
\* generation named or in a later one (SnapshotsNotOlder).
THEOREM SnapshotsAreNotOlder == ConfigSpec => []SnapshotsNotOlder
  <1>1. ConfigInv => SnapshotsNotOlder
    BY DEF ConfigInv
  <1> QED BY <1>1, ConfigInvHolds, PTL

\* A snapshot at the current generation holds the current content.
LEMMA CurrentIsExact ==
  ASSUME ConfigTypeOK, CurrentLogged, NEW snapshot \in Snapshot, NotOlder(snapshot),
         snapshot.version = generation
  PROVE  snapshot.content = content
  <1>1. generation \in Generation /\ generation # NoVersion
    BY DEF ConfigTypeOK, Generation, NoVersion
  <1>2. ASSUME NEW i \in Section PROVE snapshot.content[i] = content[i]
    <2>1. PICK k \in generation..generation : snapshot.content[i] = log[k][i]
      BY <1>1 DEF NotOlder
    <2>2. k = generation
      BY <1>1 DEF Generation
    <2> QED BY <2>1, <2>2 DEF CurrentLogged
  <1>3. snapshot.content \in Content /\ content \in Content
    BY DEF Snapshot, ConfigTypeOK
  <1> QED BY <1>2, <1>3 DEF Content

\* An equal version means equal content, so that neither the 304 of the admin
\* plane nor the watcher's version check can hide a change (VersionTellsContent).
THEOREM VersionsTellContent == ConfigSpec => []VersionTellsContent
  <1>1. ASSUME ConfigInv PROVE VersionTellsContent
    <2>1. /\ ConfigTypeOK /\ CurrentLogged
          /\ \A g \in Gateway : /\ store[g] \in Snapshot /\ NotOlder(store[g])
                                /\ dispatcher[g] \in Snapshot /\ NotOlder(dispatcher[g])
      BY <1>1 DEF ConfigInv, ConfigTypeOK, SnapshotsNotOlder
    <2>2. ASSUME NEW g \in Gateway, store[g].version = generation
          PROVE  store[g].content = content
      BY <2>1, <2>2, CurrentIsExact
    <2>3. ASSUME NEW g \in Gateway, dispatcher[g].version = generation
          PROVE  dispatcher[g].content = content
      BY <2>1, <2>3, CurrentIsExact
    <2> QED BY <2>2, <2>3 DEF VersionTellsContent
  <1> QED BY <1>1, ConfigInvHolds, PTL

=============================================================================
