---------------------------- MODULE EngineProof -----------------------------
(***************************************************************************)
(* Proofs about EngineSequence, for every number of columns, every frame   *)
(* and build setting of the assumed shape, and fifos of any depth.         *)
(***************************************************************************)
EXTENDS EngineInv, SeqLemmas, FiniteSetTheorems

-----------------------------------------------------------------------------
(* Facts about the operators.                                              *)

\* A count of a column's channel is advanced.
LEMMA CountUp ==
  ASSUME NEW f \in PerChannel, NEW c \in Columns, NEW ch \in Channels,
         NEW g, g = [f EXCEPT ![c][ch] = @ + 1]
  PROVE  /\ g \in PerChannel
         /\ \A d \in Columns, k \in Channels :
              /\ f[d][k] \in Nat
              /\ g[d][k] = IF d = c /\ k = ch THEN f[d][k] + 1 ELSE f[d][k]
<1> DEFINE row == [f[c] EXCEPT ![ch] = f[c][ch] + 1]
<1>0. g = [f EXCEPT ![c] = row]
  OBVIOUS
<1>1. f \in [Columns -> [Channels -> Nat]]
  BY DEF PerChannel
<1>2. \A d \in Columns, k \in Channels : f[d][k] \in Nat
  BY <1>1
<1>3. f[c] \in [Channels -> Nat] /\ f[c][ch] + 1 \in Nat
  BY <1>1, <1>2
<1>4. /\ row \in [Channels -> Nat]
      /\ \A k \in Channels : row[k] = IF k = ch THEN f[c][k] + 1 ELSE f[c][k]
  <2>1. ASSUME NEW h \in [Channels -> Nat], NEW m \in Nat
        PROVE  /\ [h EXCEPT ![ch] = m] \in [Channels -> Nat]
               /\ \A k \in Channels :
                    [h EXCEPT ![ch] = m][k] = IF k = ch THEN m ELSE h[k]
    OBVIOUS
  <2> QED
    BY <1>3, <2>1
<1> HIDE DEF row
<1>5. /\ g \in [Columns -> [Channels -> Nat]] /\ g[c] = row
      /\ \A d \in Columns : d # c => g[d] = f[d]
  BY <1>0, <1>1, <1>4
<1>6. \A d \in Columns, k \in Channels :
        g[d][k] = IF d = c /\ k = ch THEN f[d][k] + 1 ELSE f[d][k]
  BY <1>4, <1>5
<1> QED
  BY <1>2, <1>5, <1>6 DEF PerChannel

USE ColsAssumption DEF Columns, Channels

\* The newest of some numbers is one of them, and no less than any.
LEMMA NewestBound ==
  ASSUME NEW n \in Nat, NEW S, S \subseteq 0..n, S # {}
  PROVE  Newest(S) \in S /\ \A u \in S : u <= Newest(S)
<1> DEFINE T == {n - s : s \in S}
<1>1. T \subseteq Nat /\ T # {}
  <2>1. \A s \in S : n - s \in Nat
    OBVIOUS
  <2>2. PICK s \in S : TRUE
    OBVIOUS
  <2>3. n - s \in T
    BY <2>2
  <2> QED
    BY <2>1, <2>3
<1>2. PICK x \in T : \A y \in T : ~ (<<y, x>> \in OpToRel(<, Nat))
  BY <1>1, NatLessThanWellFounded, WFMin
<1>3. PICK s \in S : x = n - s
  OBVIOUS
<1>4. ASSUME NEW u \in S
      PROVE  u <= s
  <2>1. n - u \in T /\ n - u \in Nat /\ x \in Nat
    BY <1>1
  <2>2. <<n - u, x>> \notin OpToRel(<, Nat)
    BY <1>2, <2>1
  <2>3. ~ (n - u < x)
    BY <2>1, <2>2 DEF OpToRel
  <2>4. s \in 0..n /\ u \in 0..n
    OBVIOUS
  <2> QED
    BY <1>3, <2>3, <2>4
<1> QED
  BY <1>3, <1>4 DEF Newest

LEMMA NewestProps ==
  ASSUME NEW n \in Nat, NEW S, S \subseteq 1..n, S # {}
  PROVE  Newest(S) \in S /\ \A u \in S : u <= Newest(S)
<1>1. S \subseteq 0..n
  OBVIOUS
<1> QED
  BY <1>1, NewestBound

\* The items are issued column by column.
LEMMA IssuePosition ==
  ASSUME at \in Nat \ {0}
  PROVE  Column \in Columns /\ Row \in Nat \ {0}
<1>1. at - 1 \in Nat /\ Cols \in Nat \ {0}
  OBVIOUS
<1>2. (at - 1) % Cols \in 0..(Cols - 1)
  BY <1>1
<1>3. (at - 1) \div Cols \in Nat
  BY <1>1
<1> QED
  BY <1>2, <1>3 DEF Column, Row

\* What the emitter is issuing is an item of the schedule.
LEMMA Issued ==
  ASSUME TypeOK, Issuing
  PROVE  /\ Column \in Columns
         /\ ItemTyped(Item)
         /\ Len(Item.parts) \in Nat \ {0}
         /\ setting.overlap /\ Item.ch = "w"
            => \A p \in DOMAIN Item.parts : Item.parts[p] = {}
<1>1. Column \in Columns /\ Row \in Nat \ {0}
  BY IssuePosition DEF TypeOK
<1>2. setting \in Settings /\ layer \in 1..Len(setting.frame)
  BY DEF TypeOK, Frame
<1> DEFINE program == setting.frame[layer][Column]
<1>3. /\ Len(program) \in Nat
      /\ \A i \in 1..Len(program) :
           /\ ItemTyped(program[i])
           /\ setting.overlap /\ program[i].ch = "w"
              => \A p \in DOMAIN program[i].parts : program[i].parts[p] = {}
  BY <1>1, <1>2, SettingsAssumption
<1>4. Program(Column) = program
  BY DEF Program, Frame
<1>5. Row \in 1..Len(program) /\ Item = program[Row]
  BY <1>1, <1>3, <1>4 DEF Issuing, Item
<1>6. /\ ItemTyped(Item)
      /\ setting.overlap /\ Item.ch = "w"
         => \A p \in DOMAIN Item.parts : Item.parts[p] = {}
  BY <1>3, <1>5
<1>7. Item.parts \in Seq(SUBSET Cells) /\ Item.parts # <<>>
  BY <1>6 DEF ItemTyped
<1>8. Len(Item.parts) \in Nat \ {0}
  BY <1>7, EmptySeq
<1> QED
  BY <1>1, <1>6, <1>8

\* The step of an item that pushes pushes one of its tasks.
LEMMA PushedTask ==
  ASSUME TypeOK, PartInv, Pushing
  PROVE  /\ stage = "items" /\ Task \in 1..Len(Item.parts)
         /\ Item.parts[Task] \in SUBSET Cells
         /\ part < Item.gives + Len(Item.parts)
<1>1. /\ Issuing /\ part >= Item.gives /\ part \in Nat
      /\ stage = "items"
  BY DEF TypeOK, Pushing, Issuing
<1>2. ItemTyped(Item) /\ Len(Item.parts) \in Nat \ {0}
  BY <1>1, Issued
<1>3. Item.gives \in Nat /\ Item.parts \in Seq(SUBSET Cells)
  BY <1>2 DEF ItemTyped
<1>4. part = 0 \/ part < Item.gives + Len(Item.parts)
  BY <1>1 DEF PartInv
<1>5. part < Item.gives + Len(Item.parts)
  BY <1>1, <1>2, <1>3, <1>4
<1>6. Task \in 1..Len(Item.parts)
  BY <1>1, <1>2, <1>3, <1>5 DEF Task
<1> QED
  BY <1>1, <1>3, <1>5, <1>6

\* What the emitter awaits for the next task is a channel of a column.
LEMMA OldestChannels ==
  ASSUME TypeOK, Pushing, NEW k \in Oldest
  PROVE  k[1] \in Columns /\ k[2] \in Channels
<1>1. Column \in Columns /\ Item.ch \in Channels
  BY Issued DEF Pushing, ItemTyped
<1>2. k \in Tried
  BY DEF Oldest, CanRetire
<1>3. Sources(Item.ch) \subseteq Channels
  BY DEF Sources
<1>4. Tried \subseteq Columns \X Channels
  <2>1. Conflicts \subseteq Columns \X Channels
    BY <1>3 DEF Conflicts
  <2>2. {Column} \X Channels \subseteq Columns \X Channels
    BY <1>1
  <2>3. {<<Column, Item.ch>>} \subseteq Columns \X Channels
    BY <1>1
  <2> QED
    BY <2>1, <2>2, <2>3 DEF Tried
<1> QED
  BY <1>2, <1>4

-----------------------------------------------------------------------------
(* The queues.                                                             *)

\* Task numbers: their types, and finite sets of them.
LEMMA TaskTypes ==
  ASSUME TypeOK, NEW s \in DOMAIN tasks
  PROVE  /\ tasks[s] \in TaskRecord
         /\ tasks[s].col \in Columns /\ tasks[s].ch \in Channels
         /\ tasks[s].last \in Nat /\ tasks[s].layer \in Nat
         /\ s \in 1..Len(tasks) /\ s \in Nat
<1>1. tasks \in Seq(TaskRecord)
  BY DEF TypeOK
<1>2. tasks[s] \in TaskRecord /\ s \in 1..Len(tasks) /\ Len(tasks) \in Nat
  BY <1>1
<1> QED
  BY <1>2 DEF TaskRecord

LEMMA TaskSets ==
  ASSUME TypeOK
  PROVE  /\ DOMAIN tasks = 1..Len(tasks) /\ Len(tasks) \in Nat
         /\ IsFiniteSet(DOMAIN tasks)
         /\ \A c, ch : Mine(c, ch) \subseteq DOMAIN tasks
         /\ \A c, ch : IsFiniteSet(Spent(c, ch))
<1>1. DOMAIN tasks = 1..Len(tasks) /\ Len(tasks) \in Nat
  BY DEF TypeOK
<1>2. IsFiniteSet(DOMAIN tasks)
  BY <1>1, FS_Interval
<1>3. \A c, ch : Mine(c, ch) \subseteq DOMAIN tasks
  BY DEF Mine
<1>4. ASSUME NEW c, NEW ch
      PROVE  IsFiniteSet(Spent(c, ch))
  <2>1. Spent(c, ch) \in SUBSET DOMAIN tasks
    BY <1>3 DEF Spent
  <2> QED
    BY <1>2, <2>1, FS_Subset
<1> QED
  BY <1>1, <1>2, <1>3, <1>4

\* A step that leaves the queues and tasks alone, whatever the device moves.
LEMMA QueuesKept ==
  ASSUME TypeOK, QueueInv, accepted' \in PerChannel,
         \A c \in Columns, ch \in Channels :
           accepted[c][ch] <= accepted'[c][ch],
         UNCHANGED <<setting, live, tasks, started, taken>>
  PROVE  QueueInv'
<1> USE DEF QueueInv
<1>1. \A s \in DOMAIN tasks : Complete(s) => Complete(s)'
  <2> SUFFICES ASSUME NEW s \in DOMAIN tasks, Complete(s)
               PROVE  Complete(s)'
    OBVIOUS
  <2> DEFINE c == tasks[s].col  ch == tasks[s].ch  n == tasks[s].last
  <2>1. c \in Columns /\ ch \in Channels /\ n \in Nat
    BY TaskTypes
  <2>2. n <= accepted[c][ch]
    BY DEF Complete
  <2>3. n <= accepted'[c][ch] => Complete(s)'
    BY DEF Complete
  <2> HIDE DEF c, ch, n
  <2>4. accepted \in PerChannel /\ accepted' \in PerChannel
    BY DEF TypeOK
  <2>5. accepted[c][ch] \in Nat /\ accepted'[c][ch] \in Nat
    BY <2>1, <2>4 DEF PerChannel
  <2>6. accepted[c][ch] <= accepted'[c][ch]
    BY <2>1
  <2> QED
    BY <2>1, <2>2, <2>3, <2>5, <2>6
<1>2. OwnTasks'
  BY DEF OwnTasks
<1>3. UnitsInv'
  BY DEF UnitsInv, LastUnit
<1>4. TokenInv'
  <2>1. \A c \in Columns, ch \in Channels : Spent(c, ch)' = Spent(c, ch)
    BY DEF Spent, Mine
  <2> QED
    BY <2>1 DEF TokenInv
<1>5. WeightsInv'
  BY DEF WeightsInv
<1>6. FreedIsDone'
  BY <1>1 DEF FreedIsDone
<1>7. NoHazard'
  BY <1>1 DEF NoHazard, Clash
<1> QED
  BY <1>2, <1>3, <1>4, <1>5, <1>6, <1>7

\* A token group: its only task with a token is the oldest of the channel.
LEMMA GroupProps ==
  ASSUME TypeOK, OwnTasks, NEW c \in Columns, NEW ch \in Channels,
         Tokened(c, ch) # {}
  PROVE  \E t \in Tokened(c, ch) :
           /\ \A s \in Tokened(c, ch) : t <= s
           /\ \A s \in Group(c, ch) : s <= t
           /\ {s \in Group(c, ch) : tasks[s].token} = {t}
           /\ Group(c, ch) \subseteq Mine(c, ch)
<1>1. live[c] \subseteq DOMAIN tasks /\ live[c] \subseteq Nat
  BY TaskSets DEF TypeOK
<1>2. Tokened(c, ch) \subseteq Nat
  BY <1>1 DEF Tokened, InChannel
<1>3. PICK t \in Tokened(c, ch) :
        \A y \in Tokened(c, ch) : ~ (<<y, t>> \in OpToRel(<, Nat))
  BY <1>2, NatLessThanWellFounded, WFMin
<1>4. ASSUME NEW s \in Tokened(c, ch)
      PROVE  t <= s
  <2>1. s \in Nat /\ t \in Nat
    BY <1>2
  <2>2. ~ (s < t)
    <3>1. <<s, t>> \notin OpToRel(<, Nat)
      BY <1>3
    <3> QED
      BY <2>1, <3>1 DEF OpToRel
  <2> QED
    BY <2>1, <2>2
<1>5. \A s \in Group(c, ch) : s <= t
  BY DEF Group
<1>6. Group(c, ch) \subseteq InChannel(c, ch)
  BY DEF Group
<1>7. {s \in Group(c, ch) : tasks[s].token} = {t}
  <2>1. t \in Group(c, ch) /\ tasks[t].token
    BY <1>4 DEF Group, Tokened
  <2>2. ASSUME NEW s \in Group(c, ch), tasks[s].token
        PROVE  s = t
    <3>1. s \in Tokened(c, ch)
      BY <1>6, <2>2 DEF Tokened
    <3>2. s \in Nat /\ t \in Nat /\ s <= t /\ t <= s
      BY <1>2, <1>4, <1>5, <3>1
    <3> QED
      BY <3>2
  <2> QED
    BY <2>1, <2>2
<1>8. Group(c, ch) \subseteq Mine(c, ch)
  BY <1>1, <1>6 DEF InChannel, Mine, OwnTasks
<1> QED
  BY <1>4, <1>5, <1>7, <1>8

\* Awaiting a group: what is freed is complete, whichever task's token was
\* taken, for a channel with as many tokens out as groups freed has finished
\* the next group's task too.
LEMMA FreedTasks ==
  ASSUME TypeOK, QueueInv, NEW c \in Columns, NEW ch \in Channels,
         Retire(c, ch)
  PROVE  \A s \in Group(c, ch) : Complete(s)
<1> USE DEF QueueInv
<1>1. Tokened(c, ch) # {} /\ taken[c][ch] < TokensOut(c, ch)
  BY DEF Retire, Retirable
<1>2. PICK t \in Tokened(c, ch) :
        /\ \A s \in Tokened(c, ch) : t <= s
        /\ \A s \in Group(c, ch) : s <= t
        /\ {s \in Group(c, ch) : tasks[s].token} = {t}
        /\ Group(c, ch) \subseteq Mine(c, ch)
  BY <1>1, GroupProps
<1> DEFINE done == accepted[c][ch]
<1>3. done \in Nat
  <2>1. accepted \in [Columns -> [Channels -> Nat]]
    BY DEF TypeOK, PerChannel
  <2> QED
    BY <2>1
<1>4. \A s \in Mine(c, ch) : Complete(s) <=> tasks[s].last <= done
  BY DEF Mine, Complete
<1>5. t \in Mine(c, ch)
  BY <1>2
<1>6. \A s, u \in Mine(c, ch) :
        s <= u => tasks[s].last <= tasks[u].last
  BY DEF Mine, UnitsInv
<1>7. \A s \in Mine(c, ch) : tasks[s].last \in Nat /\ s \in Nat
  BY TaskTypes DEF Mine
<1> HIDE DEF done
<1>8. Complete(t)
  <2>1. SUFFICES ASSUME ~ Complete(t)
                 PROVE  FALSE
    OBVIOUS
  <2> DEFINE out == {s \in Mine(c, ch) : tasks[s].token /\ Complete(s)}
  <2>2. out \subseteq Spent(c, ch)
    <3>1. SUFFICES ASSUME NEW s \in Mine(c, ch), tasks[s].token, Complete(s),
                          s \in live[c]
                   PROVE  FALSE
      BY DEF Spent
    <3>2. s \in Tokened(c, ch)
      BY <3>1 DEF Tokened, InChannel, Mine
    <3>3. tasks[t].last <= tasks[s].last
      BY <1>2, <1>5, <1>6, <3>1, <3>2
    <3>4. tasks[s].last <= done /\ ~ (tasks[t].last <= done)
      BY <1>4, <1>5, <2>1, <3>1
    <3> QED
      BY <1>3, <1>5, <1>7, <3>1, <3>3, <3>4
  <2>3. IsFiniteSet(Spent(c, ch))
    BY TaskSets
  <2>4. /\ Cardinality(out) <= Cardinality(Spent(c, ch))
        /\ Cardinality(Spent(c, ch)) \in Nat /\ Cardinality(out) \in Nat
    BY <2>2, <2>3, FS_Subset, FS_CardinalityType
  <2>5. taken[c][ch] = Cardinality(Spent(c, ch))
    BY DEF TokenInv
  <2>6. taken[c][ch] < Cardinality(out)
    BY <1>1 DEF TokensOut
  <2> HIDE DEF out
  <2> QED
    BY <2>4, <2>5, <2>6
<1>9. ASSUME NEW s \in Group(c, ch)
      PROVE  Complete(s)
  <2>1. s \in Mine(c, ch) /\ s <= t
    BY <1>2
  <2>2. tasks[s].last <= tasks[t].last
    BY <1>5, <1>6, <2>1
  <2>3. tasks[t].last <= done
    BY <1>4, <1>5, <1>8
  <2>4. tasks[s].last <= done
    BY <1>3, <1>5, <1>7, <2>1, <2>2, <2>3
  <2> QED
    BY <1>4, <2>1, <2>4
<1> QED
  BY <1>9

\* An await keeps the queues' invariant and their types.
LEMMA QueuesRetired ==
  ASSUME TypeOK, QueueInv, NEW c \in Columns, NEW ch \in Channels,
         Retire(c, ch), UNCHANGED <<setting, tasks, started, device>>
  PROVE  /\ QueueInv'
         /\ taken' \in PerChannel
         /\ live' \in [Columns -> SUBSET (1..Len(tasks))]
         /\ \A d \in Columns : live'[d] \subseteq live[d]
<1> USE DEF QueueInv
<1>1. /\ taken' = [taken EXCEPT ![c][ch] = @ + 1]
      /\ live' = [live EXCEPT ![c] = @ \ Group(c, ch)]
      /\ Tokened(c, ch) # {}
      /\ accepted' = accepted
  BY DEF Retire, Retirable, device
<1>2. live \in [Columns -> SUBSET (1..Len(tasks))] /\ taken \in PerChannel
  BY DEF TypeOK
<1>3. /\ live' \in [Columns -> SUBSET (1..Len(tasks))]
      /\ \A d \in Columns : live'[d] \subseteq live[d]
      /\ live'[c] = live[c] \ Group(c, ch)
      /\ \A d \in Columns : d # c => live'[d] = live[d]
  BY <1>1, <1>2
<1>4. /\ taken' \in PerChannel
      /\ taken'[c][ch] = taken[c][ch] + 1
      /\ \A d \in Columns, k \in Channels :
           d # c \/ k # ch => taken'[d][k] = taken[d][k]
  <2>1. /\ taken' \in PerChannel
        /\ \A d \in Columns, k \in Channels :
             /\ taken[d][k] \in Nat
             /\ taken'[d][k] = IF d = c /\ k = ch THEN taken[d][k] + 1
                              ELSE taken[d][k]
    <3> HIDE DEF Columns, Channels
    <3>1. taken' = [taken EXCEPT ![c][ch] = @ + 1]
      BY <1>1
    <3>2. taken' \in PerChannel
      BY <1>2, <3>1, CountUp
    <3>3. ASSUME NEW d \in Columns, NEW k \in Channels
          PROVE  /\ taken[d][k] \in Nat
                 /\ taken'[d][k] = IF d = c /\ k = ch THEN taken[d][k] + 1
                                  ELSE taken[d][k]
      BY <1>2, <3>1, CountUp
    <3> QED
      BY <3>2, <3>3
  <2> QED
    BY <2>1
<1>5. \A s : Complete(s)' <=> Complete(s)
  BY <1>1 DEF Complete
<1>6. OwnTasks'
  BY <1>3 DEF OwnTasks
<1>7. UnitsInv'
  BY DEF UnitsInv, LastUnit
<1>8. TokenInv'
  <2>1. PICK t \in Tokened(c, ch) :
          /\ {s \in Group(c, ch) : tasks[s].token} = {t}
          /\ Group(c, ch) \subseteq Mine(c, ch)
    BY <1>1, GroupProps
  <2>2. \A d \in Columns, k \in Channels : Mine(d, k)' = Mine(d, k)
    BY DEF Mine
  <2>3. Spent(c, ch)' = Spent(c, ch) \cup {t}
    <3>1. t \in Group(c, ch) /\ tasks[t].token /\ t \in Mine(c, ch)
      BY <2>1
    <3>2. t \in live[c]
      BY DEF Tokened, InChannel
    <3>3. Spent(c, ch)' = {s \in Mine(c, ch) \ live'[c] : tasks[s].token}
      BY <2>2 DEF Spent
    <3>4. Spent(c, ch) = {s \in Mine(c, ch) \ live[c] : tasks[s].token}
      BY DEF Spent
    <3>5. \A s \in Group(c, ch) : tasks[s].token => s = t
      BY <2>1
    <3> QED
      BY <1>3, <3>1, <3>3, <3>4, <3>5
  <2>4. t \notin Spent(c, ch)
    BY DEF Spent, Tokened, InChannel
  <2>5. Cardinality(Spent(c, ch)') = Cardinality(Spent(c, ch)) + 1
    BY <2>3, <2>4, TaskSets, FS_AddElement
  <2>6. ASSUME NEW d \in Columns, NEW k \in Channels, d # c \/ k # ch
        PROVE  Spent(d, k)' = Spent(d, k)
    <3>1. CASE d # c
      BY <1>3, <2>2, <3>1 DEF Spent
    <3>2. CASE d = c
      <4>1. k # ch
        BY <2>6, <3>2
      <4>2. Group(c, ch) \cap Mine(c, k) = {}
        BY <2>1, <4>1 DEF Mine
      <4>3. Mine(c, k) \ live'[c] = Mine(c, k) \ live[c]
        BY <1>3, <4>2
      <4> QED
        BY <2>2, <3>2, <4>3 DEF Spent
    <3> QED
      BY <3>1, <3>2
  <2>7. \A d \in Columns, k \in Channels :
          taken[d][k] = Cardinality(Spent(d, k))
    BY DEF TokenInv
  <2>8. ASSUME NEW d \in Columns, NEW k \in Channels
        PROVE  taken'[d][k] = Cardinality(Spent(d, k)')
    <3>1. CASE d = c /\ k = ch
      BY <1>4, <2>5, <2>7, <3>1
    <3>2. CASE d # c \/ k # ch
      BY <1>4, <2>6, <2>7, <3>2
    <3> QED
      BY <3>1, <3>2
  <2> QED
    BY <2>8 DEF TokenInv
<1>9. WeightsInv'
  BY DEF WeightsInv
<1>10. FreedIsDone'
  <2>1. \A s \in Group(c, ch) : Complete(s)
    BY FreedTasks
  <2>2. \A s \in DOMAIN tasks : tasks[s].col \in Columns
    BY TaskTypes
  <2>3. \A s \in DOMAIN tasks : Complete(s) \/ s \in live'[tasks[s].col]
    BY <1>3, <2>1, <2>2 DEF FreedIsDone
  <2> QED
    BY <1>5, <2>3 DEF FreedIsDone
<1>11. NoHazard'
  BY <1>5 DEF NoHazard, Clash
<1> QED
  BY <1>3, <1>4, <1>6, <1>7, <1>8, <1>9, <1>10, <1>11

-----------------------------------------------------------------------------
(* Pushing a task.                                                         *)

\* What a channel was started with is only added to.
LEMMA Longer ==
  ASSUME NEW S, NEW q \in Seq(S), NEW r \in Seq(S)
  PROVE  q \o r \in Seq(S) /\ Len(q) <= Len(q \o r) /\ Len(q \o r) \in Nat
         /\ Len(q) \in Nat
<1>1. q \o r \in Seq(S) /\ Len(q \o r) = Len(q) + Len(r)
  BY ConcatProperties
<1>2. Len(q) \in Nat /\ Len(r) \in Nat
  OBVIOUS
<1> QED
  BY <1>1, <1>2

LEMMA StreamedProps ==
  ASSUME NEW st \in Started, NEW item, ItemTyped(item), item.ch = "w",
         NEW load, IF WeightsItem(item) THEN load = item.load ELSE load \in Nat
  PROVE  LET new == Streamed(st, item, load)
         IN  /\ new \in Started /\ new.a = st.a /\ new.o = st.o
             /\ Len(st.w) <= Len(new.w)
<1> DEFINE new == Streamed(st, item, load)
<1>1. /\ st.w \in Seq(Nat) /\ st.emits \in Seq(BOOLEAN)
      /\ st.shared \in Seq(Nat) /\ item.pos \in Seq(Nat)
  BY DEF Started, ItemTyped
<1>2. CASE item.gives = 1
  <2> DEFINE units == [n \in 1..load |-> 0]
  <2>1. load \in Nat
    BY <1>2 DEF WeightsItem
  <2>2. units \in Seq(Nat)
    BY <2>1
  <2>3. st.w \o units \in Seq(Nat) /\ Len(st.w) <= Len(st.w \o units)
    BY <1>1, <2>2, Longer
  <2>4. st.shared \o item.pos \in Seq(Nat)
    BY <1>1, Longer
  <2>5. new = [st EXCEPT !.w = st.w \o units, !.shared = st.shared \o item.pos]
    BY <1>2 DEF Streamed
  <2>6. /\ new \in Started /\ new.a = st.a /\ new.o = st.o
        /\ Len(st.w) <= Len(new.w)
    <3> HIDE DEF new, units
    <3> QED
      BY <2>3, <2>4, <2>5 DEF Started
  <2> QED
    BY <2>6
<1>3. CASE item.gives # 1
  <2>1. load = item.load
    BY <1>3 DEF WeightsItem
  <2>2. load.ends \in Seq(Nat) /\ load.emits \in Seq(BOOLEAN)
    BY <1>3, <2>1 DEF ItemTyped, WeightsItem
  <2> DEFINE ends == load.ends
             units == [n \in DOMAIN load.ends |-> Len(st.emits) + load.ends[n]]
  <2>3. units \in Seq(Nat)
    <3>1. /\ Len(st.emits) \in Nat /\ Len(ends) \in Nat
          /\ DOMAIN ends = 1..Len(ends) /\ \A n \in 1..Len(ends) : ends[n] \in Nat
      BY <1>1, <2>2
    <3>2. \A n \in 1..Len(ends) : Len(st.emits) + ends[n] \in Nat
      BY <3>1
    <3>3. units \in [1..Len(ends) -> Nat]
      BY <3>1, <3>2
    <3> QED
      BY <3>1, <3>3
  <2>4. st.w \o units \in Seq(Nat) /\ Len(st.w) <= Len(st.w \o units)
    BY <1>1, <2>3, Longer
  <2>5. st.emits \o load.emits \in Seq(BOOLEAN)
    BY <1>1, <2>2, Longer
  <2>6. new = [st EXCEPT !.w = st.w \o units, !.emits = st.emits \o load.emits]
    BY <1>3 DEF Streamed
  <2>7. /\ new \in Started /\ new.a = st.a /\ new.o = st.o
        /\ Len(st.w) <= Len(new.w)
    <3> HIDE DEF new, units
    <3> QED
      BY <2>4, <2>5, <2>6 DEF Started
  <2> QED
    BY <2>7
<1> QED
  BY <1>2, <1>3

LEMMA FetchedProps ==
  ASSUME NEW st \in Started, NEW item, ItemTyped(item), NEW load \in Nat
  PROVE  LET new == Fetched(st, item, load)
         IN  /\ new \in Started /\ new.w = st.w /\ new.o = st.o
             /\ Len(st.a) <= Len(new.a)
<1> DEFINE new == Fetched(st, item, load)
           base == UpTo(st.a, Len(st.a))
           fills == IF load = 0 THEN <<base>>
                    ELSE [n \in 1..load |-> base + n]
<1>1. /\ st.a \in Seq(Nat) /\ st.direct \in Seq(Nat)
      /\ item.pos \in Seq(Nat)
  BY DEF Started, ItemTyped
<1>2. base \in Nat
  BY <1>1 DEF UpTo
<1>3. fills \in Seq(Nat)
  <2>1. <<base>> \in Seq(Nat)
    BY <1>2
  <2>2. [n \in 1..load |-> base + n] \in Seq(Nat)
    <3>1. \A n \in 1..load : base + n \in Nat
      BY <1>2
    <3> QED
      BY <3>1
  <2> QED
    BY <2>1, <2>2
<1>4. new = [st EXCEPT !.a = st.a \o fills, !.direct = st.direct \o item.pos]
  BY DEF Fetched
<1>5. st.a \o fills \in Seq(Nat) /\ Len(st.a) <= Len(st.a \o fills)
  BY <1>1, <1>3, Longer
<1>6. st.direct \o item.pos \in Seq(Nat)
  BY <1>1, Longer
<1>7. /\ new \in Started /\ new.w = st.w /\ new.o = st.o
      /\ Len(st.a) <= Len(new.a)
  <2> HIDE DEF new, base, fills
  <2> QED
    BY <1>4, <1>5, <1>6 DEF Started
<1> QED
  BY <1>7

LEMMA UnitsTypes ==
  ASSUME NEW s \in Started, NEW ch \in Channels
  PROVE  LastUnit(s, ch) \in Nat
<1>1. s.w \in Seq(Nat) /\ s.a \in Seq(Nat) /\ s.o \in Nat
  BY DEF Started
<1>2. Len(s.w) \in Nat /\ Len(s.a) \in Nat
  BY <1>1
<1> QED
  BY <1>1, <1>2 DEF LastUnit

LEMMA ExtendedProps ==
  ASSUME NEW st \in Started, NEW item, ItemTyped(item),
         NEW load, IF WeightsItem(item) THEN load = item.load ELSE load \in Nat
  PROVE  LET new == Extended(st, item, load)
         IN  /\ new \in Started
             /\ \A ch \in Channels : /\ LastUnit(st, ch) \in Nat
                                     /\ LastUnit(new, ch) \in Nat
                                     /\ LastUnit(st, ch) <= LastUnit(new, ch)
<1> DEFINE new == Extended(st, item, load)
<1>2. /\ Len(st.w) \in Nat /\ Len(st.a) \in Nat /\ st.o \in Nat
  BY DEF Started
<1>3. /\ new \in Started
      /\ \A ch \in Channels : LastUnit(st, ch) <= LastUnit(new, ch)
  <2>1. CASE item.ch = "w"
    <3>1. new = Streamed(st, item, load)
      BY <2>1 DEF Extended
    <3>2. /\ new \in Started /\ new.a = st.a /\ new.o = st.o
          /\ Len(st.w) <= Len(new.w)
      BY <2>1, <3>1, StreamedProps
    <3> HIDE DEF new
    <3> QED
      BY <1>2, <3>2 DEF LastUnit
  <2>2. CASE item.ch = "a"
    <3>1. new = Fetched(st, item, load) /\ load \in Nat
      BY <2>2 DEF Extended, WeightsItem
    <3>2. /\ new \in Started /\ new.w = st.w /\ new.o = st.o
          /\ Len(st.a) <= Len(new.a)
      BY <3>1, FetchedProps
    <3> HIDE DEF new
    <3> QED
      BY <1>2, <3>2 DEF LastUnit
  <2>3. CASE item.ch = "o"
    <3>1. new = [st EXCEPT !.o = st.o + load] /\ load \in Nat
      BY <2>3 DEF Extended, WeightsItem
    <3>2. st.o + load \in Nat /\ st.o <= st.o + load
      BY <1>2, <3>1
    <3> HIDE DEF new
    <3>3. new \in Started /\ new.w = st.w /\ new.a = st.a
          /\ new.o = st.o + load
      BY <3>1, <3>2 DEF Started
    <3> QED
      BY <1>2, <3>2, <3>3 DEF LastUnit
  <2> QED
    BY <2>1, <2>2, <2>3 DEF ItemTyped
<1> QED
  BY <1>3, UnitsTypes

\* What Push records and starts.
LEMMA PushProps ==
  ASSUME TypeOK, PartInv, Push
  PROVE  \E c \in Columns, st \in Started, r \in TaskRecord :
           /\ r.col = c /\ r.ch = Item.ch /\ r.layer = layer
           /\ r.cells = Item.parts[Task]
           /\ r.last = LastUnit(st, r.ch)
           /\ \A k \in Channels :
                /\ LastUnit(started[c], k) \in Nat /\ LastUnit(st, k) \in Nat
                /\ LastUnit(started[c], k) <= LastUnit(st, k)
           /\ started' = [started EXCEPT ![c] = st]
           /\ issued' = [issued EXCEPT ![c][r.ch] = @ + 1]
           /\ tasks' = Append(tasks, r)
           /\ holds' = Append(holds, Item.hold)
           /\ live' = [live EXCEPT ![c] = @ \cup {Len(tasks) + 1}]
<1> DEFINE c == Column
           load == IF Task < Len(Item.parts) THEN 0 ELSE Item.load
           st == Extended(started[c], Item, load)
           r == [col |-> c, ch |-> Item.ch, layer |-> layer,
                 cells |-> Item.parts[Task], token |-> Token(c, Item.ch),
                 last |-> LastUnit(st, Item.ch)]
<1>1. Pushing
  BY DEF Push
<1>2. /\ c \in Columns /\ ItemTyped(Item)
      /\ Len(Item.parts) \in Nat \ {0}
  BY <1>1, Issued DEF Pushing
<1>3. Task \in 1..Len(Item.parts) /\ Item.parts[Task] \in SUBSET Cells
  BY <1>1, PushedTask
<1>4. IF WeightsItem(Item) THEN load = Item.load ELSE load \in Nat
  <2>1. CASE WeightsItem(Item)
    <3>1. Len(Item.parts) = 1
      BY <1>2, <2>1 DEF ItemTyped
    <3>2. ~ (Task < Len(Item.parts))
      BY <1>3, <3>1
    <3> QED
      BY <2>1, <3>2
  <2>2. CASE ~ WeightsItem(Item)
    <3>1. Item.load \in Nat
      BY <1>2, <2>2 DEF ItemTyped
    <3> QED
      BY <2>2, <3>1
  <2> QED
    BY <2>1, <2>2
<1>5. started[c] \in Started /\ layer \in Nat
  <2>1. started \in [Columns -> Started]
    BY DEF TypeOK
  <2>2. layer \in 1..Len(Frame)
    BY DEF TypeOK
  <2> QED
    BY <1>2, <2>1, <2>2
<1>6. /\ st \in Started
      /\ \A k \in Channels :
           /\ LastUnit(started[c], k) \in Nat /\ LastUnit(st, k) \in Nat
           /\ LastUnit(started[c], k) <= LastUnit(st, k)
  BY <1>2, <1>4, <1>5, ExtendedProps
<1>7. Item.ch \in Channels
  BY <1>2 DEF ItemTyped
<1>8. Token(c, Item.ch) \in BOOLEAN
  BY DEF Token
<1>9. r \in TaskRecord
  <2>1. LastUnit(st, Item.ch) \in Nat
    BY <1>6, <1>7
  <2> HIDE DEF c, st
  <2> QED
    BY <1>2, <1>3, <1>5, <1>7, <1>8, <2>1 DEF TaskRecord
<1>10. /\ started' = [started EXCEPT ![c] = st]
       /\ issued' = [issued EXCEPT ![c][Item.ch] = @ + 1]
       /\ tasks' = Append(tasks, r)
       /\ holds' = Append(holds, Item.hold)
       /\ live' = [live EXCEPT ![c] = @ \cup {Len(tasks) + 1}]
  BY DEF Push
<1>11. /\ r.col = c /\ r.ch = Item.ch /\ r.layer = layer
       /\ r.cells = Item.parts[Task] /\ r.last = LastUnit(st, r.ch)
  OBVIOUS
<1> HIDE DEF c, st, r
<1> QED
  BY <1>2, <1>6, <1>9, <1>10, <1>11

\* A new task is not complete, is behind the others of its channel and in its
\* column's queue.
LEMMA QueuesPushed ==
  ASSUME TypeOK, PartInv, LayerInv, QueueInv, Push
  PROVE  /\ OwnTasks' /\ UnitsInv' /\ TokenInv' /\ WeightsInv'
         /\ FreedIsDone'
<1> USE DEF QueueInv
<1>1. PICK c \in Columns, st \in Started, r \in TaskRecord :
        /\ r.col = c /\ r.ch = Item.ch /\ r.layer = layer
        /\ r.cells = Item.parts[Task]
        /\ r.last = LastUnit(st, r.ch)
        /\ \A k \in Channels :
             /\ LastUnit(started[c], k) \in Nat /\ LastUnit(st, k) \in Nat
             /\ LastUnit(started[c], k) <= LastUnit(st, k)
        /\ started' = [started EXCEPT ![c] = st]
        /\ tasks' = Append(tasks, r)
        /\ live' = [live EXCEPT ![c] = @ \cup {Len(tasks) + 1}]
  BY PushProps
<1> DEFINE n == Len(tasks) + 1
<1>2. /\ DOMAIN tasks = 1..Len(tasks) /\ Len(tasks) \in Nat
      /\ DOMAIN tasks' = 1..n /\ Len(tasks') = n
      /\ tasks'[n] = r
      /\ \A s \in DOMAIN tasks : tasks'[s] = tasks[s]
      /\ n \in Nat /\ n \notin DOMAIN tasks
      /\ DOMAIN tasks' = DOMAIN tasks \cup {n}
      /\ \A s \in DOMAIN tasks : s < n
  <2>1. tasks \in Seq(TaskRecord)
    BY DEF TypeOK
  <2> QED
    BY <1>1, <2>1
<1>3. /\ live \in [Columns -> SUBSET (1..Len(tasks))]
      /\ live'[c] = live[c] \cup {n}
      /\ \A d \in Columns : d # c => live'[d] = live[d]
  <2>1. live \in [Columns -> SUBSET (1..Len(tasks))]
    BY DEF TypeOK
  <2> QED
    BY <1>1, <2>1
<1>4. \A d \in Columns : live[d] \subseteq DOMAIN tasks
  BY <1>2, <1>3
<1>5. /\ setting' = setting /\ taken' = taken /\ accepted' = accepted
      /\ layer' = layer
  BY DEF Push, device
<1>6. started \in [Columns -> Started]
  BY DEF TypeOK
<1>7. \A s \in DOMAIN tasks :
        /\ tasks[s].col \in Columns /\ tasks[s].ch \in Channels
        /\ tasks[s].last \in Nat
  BY TaskTypes
<1>8. r.ch \in Channels /\ r.last \in Nat
  BY DEF TaskRecord
<1> HIDE DEF n
<1>9. OwnTasks'
  <2> SUFFICES ASSUME NEW d \in Columns, NEW s \in live'[d]
               PROVE  tasks'[s].col = d
    BY DEF OwnTasks
  <2>1. CASE d = c /\ s = n
    BY <1>1, <1>2, <2>1
  <2>2. CASE d # c \/ s # n
    <3>1. s \in live[d]
      BY <1>3, <2>2
    <3>2. s \in DOMAIN tasks
      BY <1>4, <3>1
    <3> QED
      BY <1>2, <3>1, <3>2 DEF OwnTasks
  <2> QED
    BY <2>1, <2>2
<1>10. ASSUME NEW d \in Columns, NEW k \in Channels
       PROVE  /\ LastUnit(started[d], k) \in Nat
              /\ LastUnit(started'[d], k) \in Nat
              /\ LastUnit(started[d], k) <= LastUnit(started'[d], k)
  <2>1. LastUnit(started[d], k) \in Nat
    BY <1>6, UnitsTypes
  <2>2. CASE d = c
    BY <1>1, <1>6, <2>2
  <2>3. CASE d # c
    <3>1. started'[d] = started[d]
      BY <1>1, <1>6, <2>3
    <3> QED
      BY <2>1, <3>1
  <2> QED
    BY <2>2, <2>3
<1>11. UnitsInv'
  <2>1. ASSUME NEW s \in DOMAIN tasks
        PROVE  tasks[s].last <= LastUnit(started'[tasks[s].col], tasks[s].ch)
    <3> DEFINE d == tasks[s].col  k == tasks[s].ch  last == tasks[s].last
    <3>1. d \in Columns /\ k \in Channels /\ last \in Nat
      BY <1>7
    <3>2. last <= LastUnit(started[d], k)
      BY DEF UnitsInv
    <3> HIDE DEF d, k, last
    <3>3. last <= LastUnit(started'[d], k)
      BY <1>10, <3>1, <3>2
    <3> QED
      BY <3>3 DEF d, k, last
  <2>2. LastUnit(started'[r.col], r.ch) = r.last
    BY <1>1, <1>6
  <2>3. \A s \in DOMAIN tasks' :
          tasks'[s].last <= LastUnit(started'[tasks'[s].col], tasks'[s].ch)
    <3> SUFFICES ASSUME NEW s \in DOMAIN tasks'
                 PROVE  tasks'[s].last <=
                          LastUnit(started'[tasks'[s].col], tasks'[s].ch)
      OBVIOUS
    <3>1. CASE s = n
      <4>1. tasks'[s] = r /\ r.last \in Nat
        BY <1>2, <1>8, <3>1
      <4> QED
        BY <2>2, <4>1
    <3>2. CASE s # n
      <4>1. s \in DOMAIN tasks /\ tasks'[s] = tasks[s]
        BY <1>2, <3>2
      <4> QED
        BY <2>1, <4>1
    <3> QED
      BY <3>1, <3>2
  <2>4. ASSUME NEW s \in DOMAIN tasks', NEW t \in DOMAIN tasks',
               s <= t, tasks'[s].col = tasks'[t].col,
               tasks'[s].ch = tasks'[t].ch
        PROVE  tasks'[s].last <= tasks'[t].last
    <3>1. CASE t = n
      <4>1. CASE s = n
        BY <1>2, <1>8, <3>1, <4>1
      <4>2. CASE s # n
        <5>1. s \in DOMAIN tasks
          BY <1>2, <4>2
        <5>2. /\ tasks[s].last <= LastUnit(started'[tasks[s].col], tasks[s].ch)
              /\ tasks'[s] = tasks[s] /\ tasks'[t] = r
          BY <1>2, <2>1, <3>1, <5>1
        <5> QED
          BY <2>2, <2>4, <5>2
      <4> QED
        BY <4>1, <4>2
    <3>2. CASE t # n
      <4>1. t \in DOMAIN tasks /\ t < n /\ t \in Nat /\ n \in Nat
        BY <1>2, <3>2
      <4>2. s # n
        BY <2>4, <4>1
      <4>3. s \in DOMAIN tasks
        BY <1>2, <4>2
      <4> QED
        BY <1>2, <2>4, <4>1, <4>3 DEF UnitsInv
    <3> QED
      BY <3>1, <3>2
  <2>5. \A s, t \in DOMAIN tasks' :
          s <= t /\ tasks'[s].col = tasks'[t].col /\ tasks'[s].ch = tasks'[t].ch
          => tasks'[s].last <= tasks'[t].last
    BY <2>4
  <2> QED
    BY <2>3, <2>5 DEF UnitsInv
<1>12. TokenInv'
  <2>1. ASSUME NEW d \in Columns, NEW k \in Channels
        PROVE  Spent(d, k)' = Spent(d, k)
    <3>1. Spent(d, k)' = {s \in DOMAIN tasks' :
                           /\ tasks'[s].col = d /\ tasks'[s].ch = k
                           /\ s \notin live'[d] /\ tasks'[s].token}
      BY DEF Spent, Mine
    <3>2. Spent(d, k) = {s \in DOMAIN tasks :
                           /\ tasks[s].col = d /\ tasks[s].ch = k
                           /\ s \notin live[d] /\ tasks[s].token}
      BY DEF Spent, Mine
    <3>3. d = c => n \in live'[d]
      BY <1>3
    <3>4. n \notin DOMAIN tasks /\ DOMAIN tasks' = DOMAIN tasks \cup {n}
          /\ tasks'[n].col = c
      BY <1>1, <1>2
    <3>5. \A s \in DOMAIN tasks : /\ tasks'[s] = tasks[s]
                                  /\ s \in live'[d] <=> s \in live[d]
      BY <1>2, <1>3, <3>4
    <3> QED
      BY <3>1, <3>2, <3>3, <3>4, <3>5
  <2> QED
    BY <1>5, <2>1 DEF TokenInv
<1>13. WeightsInv'
  <2>1. setting.overlap /\ r.ch = "w" => r.cells = {}
    <3>1. Pushing
      BY DEF Push
    <3>2. Task \in 1..Len(Item.parts)
      BY <3>1, PushedTask
    <3>3. /\ Item.parts \in Seq(SUBSET Cells)
          /\ setting.overlap /\ Item.ch = "w"
             => \A p \in DOMAIN Item.parts : Item.parts[p] = {}
      BY <3>1, Issued DEF Pushing, ItemTyped
    <3> QED
      BY <1>1, <3>2, <3>3
  <2> QED
    BY <1>2, <1>5, <2>1 DEF WeightsInv
<1>14. \A s \in DOMAIN tasks : Complete(s)' <=> Complete(s)
  BY <1>2, <1>5 DEF Complete
<1>15. FreedIsDone'
  <2>1. ASSUME NEW s \in DOMAIN tasks'
        PROVE  Complete(s)' \/ s \in live'[tasks'[s].col]
    <3>1. CASE s = n
      BY <1>1, <1>2, <1>3, <3>1
    <3>2. CASE s # n
      <4>1. s \in DOMAIN tasks /\ tasks'[s] = tasks[s]
        BY <1>2, <3>2
      <4>2. Complete(s) \/ s \in live[tasks[s].col]
        BY <4>1 DEF FreedIsDone
      <4> QED
        BY <1>3, <1>7, <1>14, <4>1, <4>2
    <3> QED
      BY <3>1, <3>2
  <2> QED
    BY <2>1 DEF FreedIsDone
<1> QED
  BY <1>9, <1>11, <1>12, <1>13, <1>15


\* Without overlap only tasks of the running layer can be incomplete; with it
\* every older task of another layer that touches the cells is no newer than
\* the one the tracker names, of this layer or not, and that one is awaited.
LEMMA HazardPushed ==
  ASSUME TypeOK, PartInv, LayerInv, QueueInv, Push
  PROVE  NoHazard'
<1> USE DEF QueueInv
<1>1. PICK c \in Columns, st \in Started, r \in TaskRecord :
        /\ r.ch = Item.ch /\ r.layer = layer /\ r.cells = Item.parts[Task]
        /\ tasks' = Append(tasks, r)
  BY PushProps
<1> DEFINE n == Len(tasks) + 1
<1>2. /\ DOMAIN tasks = 1..Len(tasks) /\ Len(tasks) \in Nat
      /\ Len(tasks') = n /\ tasks'[n] = r
      /\ \A s \in DOMAIN tasks : tasks'[s] = tasks[s]
      /\ DOMAIN tasks' = DOMAIN tasks \cup {n}
  <2>1. tasks \in Seq(TaskRecord)
    BY DEF TypeOK
  <2> QED
    BY <1>1, <2>1
<1> HIDE DEF n
<1>3. accepted' = accepted /\ setting' = setting
  BY DEF Push, device
<1>4. Pushing /\ Ready
  BY DEF Push
<1>5. Item.ch \in Channels /\ r.ch \in Channels /\ layer \in Nat
  <2>1. layer \in 1..Len(Frame)
    BY DEF TypeOK
  <2> QED
    BY <1>4, <2>1, Issued DEF Pushing, ItemTyped, TaskRecord
<1>6. ASSUME NEW u \in DOMAIN tasks, ~ Complete(u), tasks[u].layer < layer
      PROVE  ~ Clash(r, tasks[u])
  <2> DEFINE d == tasks[u].col  k == tasks[u].ch
  <2>1. /\ d \in Columns /\ k \in Channels /\ tasks[u].layer \in Nat
        /\ u \in 1..Len(tasks) /\ u \in Nat
    BY TaskTypes
  <2>2. u \in live[d]
    BY <1>6 DEF FreedIsDone
  <2>3. setting.overlap
    <3>1. ~ setting.overlap => tasks[u].layer = layer
      BY <2>1, <2>2 DEF LayerInv
    <3> QED
      BY <1>5, <1>6, <2>1, <3>1
  <2>4. SUFFICES ASSUME Clash(r, tasks[u])
                 PROVE  FALSE
    OBVIOUS
  <2>5. "o" \in {r.ch, k} /\ r.cells \cap tasks[u].cells # {}
    BY <2>4 DEF Clash
  <2>6. k # "w"
    BY <2>3, <2>5 DEF WeightsInv
  <2>7. Item.ch # "w"
    <3>1. Task \in 1..Len(Item.parts)
      BY <1>4, PushedTask
    <3>2. /\ Item.parts \in Seq(SUBSET Cells)
          /\ setting.overlap /\ Item.ch = "w"
             => \A p \in DOMAIN Item.parts : Item.parts[p] = {}
      BY <1>4, Issued DEF Pushing, ItemTyped
    <3> QED
      BY <1>1, <2>3, <2>5, <3>1, <3>2
  <2>8. k \in Sources(Item.ch)
    BY <1>1, <1>5, <2>1, <2>5, <2>6, <2>7 DEF Sources
  <2>9. ~ Outstanding(d, k, Item.parts[Task])
    <3>1. Conflicts = {}
      BY <1>4 DEF Ready
    <3>2. <<d, k>> \in Columns \X Sources(Item.ch)
      BY <2>1, <2>8
    <3>3. <<d, k>> \notin Conflicts
      BY <3>1
    <3> QED
      BY <2>3, <3>2, <3>3 DEF Conflicts
  <2>10. ~ (u <= Dep(d, k, r.cells))
    BY <1>1, <2>2, <2>9 DEF Outstanding, InChannel
  <2> DEFINE T == {s \in Mine(d, k) : tasks[s].cells \cap r.cells # {}}
             B == {s \in Mine(d, k) : tasks[s].layer < layer}
  <2>11. u \in T /\ T \subseteq 1..Len(tasks)
    BY <1>2, <2>5 DEF Mine
  <2>12. u \in B /\ B \subseteq 1..Len(tasks)
    BY <1>2, <1>6 DEF Mine
  <2>13. u <= Newest(T) /\ Newest(T) \in 1..Len(tasks)
    BY <1>2, <2>11, NewestProps
  <2>14. u <= Newest(B)
    BY <1>2, <2>12, NewestProps
  <2>15. Touched(d, k, r.cells) = Newest(T) /\ Before(d, k) = Newest(B)
    BY DEF Touched, Before
  <2> HIDE DEF d, k, T, B
  <2> QED
    BY <2>10, <2>13, <2>14, <2>15 DEF Dep
<1>7. \A u \in DOMAIN tasks : Complete(u)' <=> Complete(u)
  BY <1>2, <1>3 DEF Complete
<1>8. ASSUME NEW u \in DOMAIN tasks',
             ~ Complete(u)', tasks'[u].layer < tasks'[n].layer
      PROVE  ~ Clash(tasks'[n], tasks'[u])
  <2>1. u # n
    BY <1>1, <1>2, <1>5, <1>8
  <2>2. u \in DOMAIN tasks /\ tasks'[u] = tasks[u] /\ tasks'[n] = r
    BY <1>2, <2>1
  <2>3. ~ Complete(u) /\ tasks[u].layer < layer
    BY <1>1, <1>7, <1>8, <2>2
  <2> QED
    BY <1>6, <2>2, <2>3
<1> QED
  BY <1>2, <1>8 DEF NoHazard, Clash


-----------------------------------------------------------------------------
(* The invariant.                                                          *)

\* A step that leaves the emitter at its place and starts no task.
LEMMA PlaceKept ==
  ASSUME TypeOK, PartInv, LayerInv, EmptyInv,
         UNCHANGED <<setting, stage, layer, at, part, tasks>>,
         live' \in [Columns -> SUBSET (1..Len(tasks))],
         \A d \in Columns : live'[d] \subseteq live[d]
  PROVE  PartInv' /\ LayerInv' /\ EmptyInv'
<1>1. PartInv'
  BY DEF PartInv, Issuing, ItemsLeft, Longest, Program, Frame, Row, Column,
         Item
<1>2. LayerInv'
  BY DEF LayerInv
<1>3. EmptyInv'
  BY DEF EmptyInv, AtRest
<1> QED
  BY <1>1, <1>2, <1>3

\* The device moves a unit or consumes an activation.
LEMMA DeviceStep ==
  ASSUME IInv, NEW c \in Columns, Device(c)
  PROVE  IInv'
<1> USE DEF IInv
<1>1. UNCHANGED <<setting, emitter>>
  BY DEF Device, AcceptWeight, AcceptFill, DrainOutput, Compute, Move
<1>2. UNCHANGED <<setting, stage, layer, at, part, live, holds, issued, tasks,
                  started, taken>>
  BY <1>1 DEF emitter
<1>3. accepted \in PerChannel /\ computed \in [Columns -> Nat]
  BY DEF TypeOK
<1>4. /\ accepted' \in PerChannel
      /\ \A d \in Columns, k \in Channels : accepted[d][k] <= accepted'[d][k]
      /\ computed' \in [Columns -> Nat]
  <2>1. ASSUME NEW ch \in Channels, Move(c, ch)
        PROVE  /\ accepted' \in PerChannel
               /\ \A d \in Columns, k \in Channels :
                    accepted[d][k] <= accepted'[d][k]
               /\ computed' \in [Columns -> Nat]
    <3>1. accepted' = [accepted EXCEPT ![c][ch] = @ + 1]
          /\ computed' = computed
      BY <2>1 DEF Move
    <3>2. /\ accepted' \in PerChannel
          /\ \A d \in Columns, k \in Channels :
               /\ accepted[d][k] \in Nat
               /\ accepted'[d][k] = IF d = c /\ k = ch THEN accepted[d][k] + 1
                                   ELSE accepted[d][k]
      <4> HIDE DEF Columns, Channels
      <4>1. accepted' \in PerChannel
        BY <1>3, <3>1, CountUp
      <4>2. ASSUME NEW d \in Columns, NEW k \in Channels
            PROVE  /\ accepted[d][k] \in Nat
                   /\ accepted'[d][k] = IF d = c /\ k = ch
                                        THEN accepted[d][k] + 1
                                        ELSE accepted[d][k]
        BY <1>3, <3>1, CountUp
      <4> QED
        BY <4>1, <4>2
    <3>3. \A d \in Columns, k \in Channels :
            accepted[d][k] <= accepted'[d][k]
      BY <3>2
    <3> QED
      BY <1>3, <3>1, <3>2, <3>3
  <2>2. CASE Compute(c)
    <3>1. /\ computed' = [computed EXCEPT ![c] = @ + 1]
          /\ accepted' = accepted
      BY <2>2 DEF Compute
    <3>2. \A d \in Columns, k \in Channels : accepted[d][k] \in Nat
      BY <1>3 DEF PerChannel
    <3>3. \A d \in Columns, k \in Channels :
            accepted[d][k] <= accepted'[d][k]
      BY <3>1, <3>2
    <3>4. computed' \in [Columns -> Nat]
      <4>1. computed \in [Columns -> Nat]
        BY <1>3
      <4>2. computed[c] \in Nat
        BY <4>1
      <4>3. computed[c] + 1 \in Nat
        BY <4>2
      <4> QED
        BY <3>1, <4>1, <4>3
    <3> QED
      BY <1>3, <3>1, <3>3, <3>4
  <2>3. Compute(c) \/ \E ch \in Channels : Move(c, ch)
    BY DEF Device, AcceptWeight, AcceptFill, DrainOutput
  <2> QED
    BY <2>1, <2>2, <2>3
<1>5. TypeOK'
  BY <1>2, <1>4 DEF TypeOK, Frame
<1>6. PartInv' /\ LayerInv' /\ EmptyInv'
  <2>1. live' \in [Columns -> SUBSET (1..Len(tasks))] /\ live' = live
    BY <1>2 DEF TypeOK
  <2> QED
    BY <1>2, <2>1, PlaceKept
<1>7. QueueInv'
  BY <1>2, <1>4, QueuesKept
<1> QED
  BY <1>5, <1>6, <1>7

\* An await, before a task or in a barrier.
LEMMA RetireStep ==
  ASSUME IInv, NEW c \in Columns, NEW ch \in Channels, Retire(c, ch),
         UNCHANGED <<setting, stage, layer, at, part, holds, issued, tasks,
                     started, device>>
  PROVE  IInv'
<1> USE DEF IInv
<1>1. /\ QueueInv'
      /\ taken' \in PerChannel
      /\ live' \in [Columns -> SUBSET (1..Len(tasks))]
      /\ \A d \in Columns : live'[d] \subseteq live[d]
  BY QueuesRetired
<1>2. TypeOK'
  BY <1>1 DEF TypeOK, Frame, device
<1>3. PartInv' /\ LayerInv' /\ EmptyInv'
  BY <1>1, PlaceKept
<1> QED
  BY <1>1, <1>2, <1>3

\* A step of the emitter that starts and awaits nothing.
LEMMA QueuesUntouched ==
  ASSUME IInv, UNCHANGED <<setting, live, tasks, started, taken, device>>
  PROVE  QueueInv'
<1>1. accepted' = accepted
  BY DEF device
<1>2. accepted \in PerChannel
  BY DEF IInv, TypeOK
<1>3. \A c \in Columns, ch \in Channels : accepted[c][ch] <= accepted'[c][ch]
  <2>1. \A c \in Columns, ch \in Channels : accepted[c][ch] \in Nat
    BY <1>2 DEF PerChannel
  <2> QED
    BY <1>1, <2>1
<1> QED
  BY <1>1, <1>2, <1>3, QueuesKept DEF IInv

\* An activation item serves the held tasks.
LEMMA ServeStep == ASSUME IInv, Serve PROVE IInv'
<1> USE DEF IInv
<1>1. /\ Issuing /\ part < Item.gives /\ part' = part + 1
      /\ UNCHANGED <<setting, stage, layer, at, live, issued, tasks, started,
                     taken, device>>
  BY DEF Serve
<1>2. part \in Nat /\ holds \in Seq(Nat)
  BY DEF TypeOK
<1>3. holds' \in Seq(Nat) /\ Len(holds') = Len(holds)
  <2> DEFINE served(s) == s \in Served(Column)
  <2>1. holds' = [s \in DOMAIN holds |->
                    IF served(s) THEN holds[s] - 1 ELSE holds[s]]
    BY DEF Serve
  <2>2. \A s \in DOMAIN holds : served(s) => holds[s] > 0
    BY DEF Served, Waits
  <2> HIDE DEF served
  <2>3. \A s \in DOMAIN holds : holds[s] \in Nat
    BY <1>2
  <2>4. \A s \in DOMAIN holds : holds'[s] \in Nat
    BY <2>1, <2>2, <2>3
  <2>5. DOMAIN holds = 1..Len(holds) /\ Len(holds) \in Nat
    BY <1>2
  <2>6. holds' \in [1..Len(holds) -> Nat]
    BY <2>1, <2>4, <2>5
  <2> QED
    BY <2>5, <2>6
<1>4. TypeOK'
  BY <1>1, <1>2, <1>3 DEF TypeOK, Frame, device
<1>5. PartInv'
  <2>1. Issuing' /\ Item' = Item
    BY <1>1 DEF Issuing, ItemsLeft, Longest, Program, Frame, Row, Column, Item
  <2>2. Len(Item.parts) \in Nat \ {0} /\ Item.gives \in Nat
    BY <1>1, Issued DEF ItemTyped
  <2>3. part' < Item.gives + Len(Item.parts)
    BY <1>1, <1>2, <2>2
  <2> QED
    BY <2>1, <2>3 DEF PartInv
<1>6. LayerInv'
  BY <1>1 DEF LayerInv
<1>7. EmptyInv'
  <2>1. ~ AtRest'
    BY <1>1, <1>2 DEF AtRest, Issuing
  <2> QED
    BY <2>1 DEF EmptyInv
<1> QED
  BY <1>1, <1>4, <1>5, <1>6, <1>7, QueuesUntouched

\* A column has no item in this round.
LEMMA SkipStep == ASSUME IInv, Skip PROVE IInv'
<1> USE DEF IInv
<1>1. /\ stage = "items" /\ ItemsLeft /\ Row > Len(Program(Column))
      /\ at' = at + 1
      /\ UNCHANGED <<setting, stage, layer, part, live, holds, issued, tasks,
                     started, taken, device>>
  BY DEF Skip
<1>2. at \in Nat \ {0} /\ at + 1 \in Nat \ {0} /\ at + 1 # 1
  BY DEF TypeOK
<1>3. TypeOK'
  BY <1>1, <1>2 DEF TypeOK, Frame, device
<1>4. PartInv'
  <2>1. Column \in Columns /\ Row \in Nat
    BY <1>2, IssuePosition
  <2>2. setting \in Settings /\ layer \in 1..Len(setting.frame)
    BY DEF TypeOK, Frame
  <2>3. Len(Program(Column)) \in Nat
    BY <2>1, <2>2, SettingsAssumption DEF Program, Frame
  <2>4. ~ Issuing
    BY <1>1, <2>1, <2>3 DEF Issuing
  <2>5. part = 0
    BY <1>1, <2>4 DEF PartInv
  <2> QED
    BY <1>1, <2>5 DEF PartInv
<1>5. LayerInv'
  BY <1>1 DEF LayerInv
<1>6. EmptyInv'
  <2>1. ~ AtRest'
    BY <1>1, <1>2 DEF AtRest
  <2> QED
    BY <2>1 DEF EmptyInv
<1> QED
  BY <1>1, <1>3, <1>4, <1>5, <1>6, QueuesUntouched


\* Nothing can be awaited for the next task: the emitter gives up.
LEMMA RaiseStep == ASSUME IInv, Raise PROVE IInv'
<1> USE DEF IInv
<1>1. /\ stage' = "failed"
      /\ UNCHANGED <<setting, layer, at, part, live, holds, issued, tasks,
                     started, taken, device>>
  BY DEF Raise
<1>2. TypeOK'
  BY <1>1 DEF TypeOK, Frame, device
<1>3. PartInv' /\ LayerInv' /\ EmptyInv'
  BY <1>1 DEF PartInv, LayerInv, EmptyInv, AtRest
<1> QED
  BY <1>1, <1>2, <1>3, QueuesUntouched

LEMMA PushStep == ASSUME IInv, Push PROVE IInv'
<1> USE DEF IInv
<1>1. PICK c \in Columns, st \in Started, r \in TaskRecord :
        /\ r.layer = layer
        /\ started' = [started EXCEPT ![c] = st]
        /\ issued' = [issued EXCEPT ![c][r.ch] = @ + 1]
        /\ tasks' = Append(tasks, r)
        /\ holds' = Append(holds, Item.hold)
        /\ live' = [live EXCEPT ![c] = @ \cup {Len(tasks) + 1}]
  BY PushProps
<1>2. /\ Pushing
      /\ UNCHANGED <<setting, stage, layer, taken, device>>
      /\ IF Task < Len(Item.parts) THEN part' = part + 1 /\ at' = at
                                   ELSE part' = 0 /\ at' = at + 1
  BY DEF Push
<1>3. /\ stage = "items" /\ Task \in 1..Len(Item.parts)
      /\ ItemTyped(Item) /\ Len(Item.parts) \in Nat \ {0}
  BY <1>2, PushedTask, Issued DEF Pushing
<1>4. /\ part \in Nat /\ at \in Nat \ {0} /\ Item.gives \in Nat
      /\ Item.hold \in Nat
  BY <1>3 DEF TypeOK, ItemTyped
<1>5. /\ tasks \in Seq(TaskRecord) /\ holds \in Seq(Nat)
      /\ Len(holds) = Len(tasks)
  BY DEF TypeOK
<1>6. /\ tasks' \in Seq(TaskRecord) /\ holds' \in Seq(Nat)
      /\ Len(holds') = Len(tasks')
      /\ Len(tasks') = Len(tasks) + 1 /\ Len(tasks) \in Nat
      /\ tasks'[Len(tasks) + 1] = r
      /\ \A s \in 1..Len(tasks) : tasks'[s] = tasks[s]
  BY <1>1, <1>4, <1>5
<1>7. live \in [Columns -> SUBSET (1..Len(tasks))]
  BY DEF TypeOK
<1>8. /\ live' \in [Columns -> SUBSET (1..Len(tasks'))]
      /\ live'[c] = live[c] \cup {Len(tasks) + 1}
      /\ \A d \in Columns : d # c => live'[d] = live[d]
  <2>1. \A d \in Columns : live[d] \subseteq 1..Len(tasks)
    BY <1>7
  <2>2. 1..Len(tasks') = 1..Len(tasks) \cup {Len(tasks) + 1}
    BY <1>6
  <2> QED
    BY <1>1, <1>7, <2>1, <2>2
<1>9. started' \in [Columns -> Started]
  <2>1. started \in [Columns -> Started]
    BY DEF TypeOK
  <2> QED
    BY <1>1, <2>1
<1>10. issued' \in PerChannel
  <2> DEFINE ch == r.ch
  <2>1. issued \in PerChannel /\ ch \in Channels
    BY DEF TypeOK, TaskRecord
  <2>2. issued' = [issued EXCEPT ![c][ch] = @ + 1]
    BY <1>1
  <2> HIDE DEF ch, Columns, Channels
  <2> QED
    BY <2>1, <2>2, CountUp
<1>11. part' \in Nat /\ at' \in Nat \ {0}
  BY <1>2, <1>4
<1>12. TypeOK'
  BY <1>2, <1>6, <1>8, <1>9, <1>10, <1>11 DEF TypeOK, Frame, device
<1>13. PartInv'
  <2>1. CASE Task < Len(Item.parts)
    <3>1. part' = part + 1 /\ at' = at
      BY <1>2, <2>1
    <3>2. Issuing' /\ Item' = Item
      BY <1>2, <3>1 DEF Pushing, Issuing, ItemsLeft, Longest, Program, Frame,
                        Row, Column, Item
    <3>3. part' < Item.gives + Len(Item.parts)
      BY <1>3, <1>4, <2>1, <3>1 DEF Task
    <3> QED
      BY <3>2, <3>3 DEF PartInv
  <2>2. CASE ~ (Task < Len(Item.parts))
    BY <1>2, <2>2 DEF PartInv
  <2> QED
    BY <2>1, <2>2
<1>14. LayerInv'
  <2>1. ASSUME ~ setting.overlap, NEW d \in Columns, NEW s \in live'[d]
        PROVE  tasks'[s].layer = layer
    <3>1. CASE s = Len(tasks) + 1
      BY <1>1, <1>6, <3>1
    <3>2. CASE s # Len(tasks) + 1
      <4>1. s \in live[d] /\ s \in 1..Len(tasks)
        BY <1>7, <1>8, <2>1, <3>2
      <4> QED
        BY <1>6, <2>1, <4>1 DEF LayerInv
    <3> QED
      BY <3>1, <3>2
  <2> QED
    BY <1>2, <2>1 DEF LayerInv
<1>15. EmptyInv'
  <2>1. ~ (at' = 1 /\ part' = 0)
    BY <1>2, <1>4
  <2>2. stage' = "items"
    BY <1>2, <1>3
  <2>3. ~ AtRest'
    BY <2>1, <2>2 DEF AtRest
  <2> QED
    BY <2>3 DEF EmptyInv
<1>16. QueueInv'
  BY QueuesPushed, HazardPushed DEF QueueInv
<1> QED
  BY <1>12, <1>13, <1>14, <1>15, <1>16

\* A layer behind the last one's barrier, or without a barrier.
LEMMA NextLayerProps ==
  ASSUME TypeOK, NextLayer, setting' = setting
  PROVE  /\ stage' \in {"items", "end"}
         /\ layer' \in 1..Len(Frame') /\ at' \in Nat \ {0}
         /\ issued' \in PerChannel
         /\ LastLayer <=> stage' = "end"
<1>1. layer \in 1..Len(Frame) /\ Len(Frame) \in Nat
  <2>1. setting \in Settings /\ layer \in 1..Len(Frame)
    BY DEF TypeOK
  <2> QED
    BY <2>1, SettingsAssumption DEF Frame
<1>2. Frame' = Frame
  BY DEF Frame
<1>3. CASE LastLayer
  BY <1>1, <1>2, <1>3 DEF NextLayer, TypeOK
<1>4. CASE ~ LastLayer
  <2>1. layer + 1 \in 1..Len(Frame)
    BY <1>1, <1>4 DEF LastLayer
  <2>2. Zero \in PerChannel
    BY DEF Zero, PerChannel
  <2> QED
    BY <1>2, <1>4, <2>1, <2>2 DEF NextLayer
<1> QED
  BY <1>3, <1>4

\* All items are issued.
LEMMA EndItemsStep == ASSUME IInv, EndItems PROVE IInv'
<1> USE DEF IInv
<1>1. /\ stage = "items" /\ ~ ItemsLeft
      /\ holds' = [s \in DOMAIN holds |-> 0]
      /\ UNCHANGED <<setting, part, live, tasks, started, taken, device>>
  BY DEF EndItems
<1>2. part = 0
  BY <1>1 DEF PartInv, Issuing
<1>3. holds' \in Seq(Nat) /\ Len(holds') = Len(holds)
  <2>1. holds \in Seq(Nat)
    BY DEF TypeOK
  <2>2. DOMAIN holds = 1..Len(holds) /\ Len(holds) \in Nat
    BY <2>1
  <2>3. holds' \in [1..Len(holds) -> Nat]
    BY <1>1, <2>2
  <2> QED
    BY <2>2, <2>3
<1>4. /\ stage' \in {"items", "barrier"}
      /\ layer' \in 1..Len(Frame') /\ at' \in Nat \ {0}
      /\ issued' \in PerChannel
      /\ stage' = "items" => setting.overlap
      /\ ~ setting.overlap => layer' = layer
  <2>1. CASE setting.overlap /\ ~ LastLayer
    <3>1. NextLayer
      BY <2>1 DEF EndItems
    <3> QED
      BY <1>1, <2>1, <3>1, NextLayerProps
  <2>2. CASE ~ (setting.overlap /\ ~ LastLayer)
    <3>1. stage' = "barrier" /\ UNCHANGED <<layer, at, issued>>
      BY <2>2 DEF EndItems
    <3> QED
      BY <1>1, <3>1 DEF TypeOK, Frame
  <2> QED
    BY <2>1, <2>2
<1>5. TypeOK'
  BY <1>1, <1>3, <1>4 DEF TypeOK, device
<1>6. PartInv' /\ LayerInv' /\ EmptyInv'
  BY <1>1, <1>2, <1>4 DEF PartInv, LayerInv, EmptyInv, AtRest
<1> QED
  BY <1>1, <1>5, <1>6, QueuesUntouched

\* A barrier is over.
LEMMA LeaveBarrierStep == ASSUME IInv, LeaveBarrier PROVE IInv'
<1> USE DEF IInv
<1>1. /\ stage = "barrier" /\ Busy = {} /\ NextLayer
      /\ UNCHANGED <<setting, part, live, holds, tasks, started, taken,
                     device>>
  BY DEF LeaveBarrier
<1>2. \A c \in Columns : live'[c] = {}
  BY <1>1 DEF Busy
<1>3. part = 0
  BY <1>1 DEF PartInv, Issuing
<1>4. /\ stage' \in {"items", "end"}
      /\ layer' \in 1..Len(Frame') /\ at' \in Nat \ {0}
      /\ issued' \in PerChannel
  BY <1>1, NextLayerProps
<1>5. TypeOK'
  BY <1>1, <1>4 DEF TypeOK, device
<1>6. PartInv' /\ LayerInv' /\ EmptyInv'
  BY <1>1, <1>2, <1>3 DEF PartInv, LayerInv, EmptyInv
<1> QED
  BY <1>1, <1>5, <1>6, QueuesUntouched

\* Nothing has been started.
LEMMA InitIInv == Init => IInv
<1> SUFFICES ASSUME Init
             PROVE  IInv
  OBVIOUS
<1> USE DEF Init
<1>1. tasks = <<>> /\ DOMAIN tasks = {} /\ Len(tasks) = 0
  OBVIOUS
<1>2. Zero \in PerChannel /\ \A c \in Columns, ch \in Channels : Zero[c][ch] = 0
  BY DEF Zero, PerChannel
<1>3. TypeOK
  <2>1. setting \in Settings /\ layer \in 1..Len(Frame)
    BY SettingsAssumption DEF Frame
  <2>2. started \in [Columns -> Started]
    BY DEF Started
  <2>3. /\ tasks \in Seq(TaskRecord) /\ holds \in Seq(Nat)
        /\ Len(holds) = Len(tasks)
    OBVIOUS
  <2>4. live \in [Columns -> SUBSET (1..Len(tasks))]
    OBVIOUS
  <2>5. issued \in PerChannel /\ taken \in PerChannel /\ accepted \in PerChannel
    BY <1>2
  <2>6. /\ stage \in {"items", "barrier", "end", "failed"}
        /\ at \in Nat \ {0} /\ part \in Nat
        /\ computed \in [Columns -> Nat]
    OBVIOUS
  <2> HIDE DEF Init, Columns, Channels
  <2> QED
    BY <2>1, <2>2, <2>3, <2>4, <2>5, <2>6 DEF TypeOK
<1>4. PartInv
  BY DEF PartInv
<1>5. LayerInv /\ EmptyInv /\ OwnTasks /\ WeightsInv /\ FreedIsDone
  BY <1>1 DEF LayerInv, EmptyInv, OwnTasks, WeightsInv, FreedIsDone
<1>6. UnitsInv
  BY <1>1 DEF UnitsInv
<1>7. TokenInv
  <2>1. \A c \in Columns, ch \in Channels : Spent(c, ch) = {}
    BY <1>1 DEF Spent, Mine
  <2> QED
    BY <1>2, <2>1, FS_EmptySet DEF TokenInv
<1>8. NoHazard
  BY <1>1 DEF NoHazard
<1> QED
  BY <1>3, <1>4, <1>5, <1>6, <1>7, <1>8 DEF IInv, QueueInv

\* One lemma a step.
LEMMA StepIInv == IInv /\ [Next]_vars => IInv'
<1> SUFFICES ASSUME IInv, [Next]_vars
             PROVE  IInv'
  OBVIOUS
<1>1. ASSUME NEW c \in Columns, Device(c)
      PROVE  IInv'
  BY <1>1, DeviceStep
<1>2. CASE Serve
  BY <1>2, ServeStep
<1>3. CASE Skip
  BY <1>3, SkipStep
<1>4. CASE Await
  <2>1. Pushing /\ TypeOK
    BY <1>4 DEF Await, IInv
  <2>2. PICK k \in Oldest : Retire(k[1], k[2])
    BY <1>4 DEF Await
  <2>3. k[1] \in Columns /\ k[2] \in Channels
    BY <2>1, OldestChannels
  <2> QED
    BY <1>4, <2>2, <2>3, RetireStep DEF Await
<1>5. CASE Raise
  BY <1>5, RaiseStep
<1>6. CASE Push
  BY <1>6, PushStep
<1>7. CASE EndItems
  BY <1>7, EndItemsStep
<1>8. CASE AwaitBarrier
  <2>1. PICK c \in Busy : \E s \in live[c] : Retire(c, tasks[s].ch)
    BY <1>8 DEF AwaitBarrier
  <2>2. PICK s \in live[c] : Retire(c, tasks[s].ch)
    BY <2>1
  <2>3. c \in Columns /\ s \in DOMAIN tasks
    BY TaskSets DEF Busy, IInv, TypeOK
  <2>4. tasks[s].ch \in Channels
    BY <2>3, TaskTypes DEF IInv
  <2> QED
    BY <1>8, <2>2, <2>3, <2>4, RetireStep DEF AwaitBarrier
<1>9. CASE LeaveBarrier
  BY <1>9, LeaveBarrierStep
<1>10. CASE UNCHANGED vars
  <2>1. UNCHANGED <<setting, stage, layer, at, part, live, holds, issued,
                    tasks, started, taken, device>>
    BY <1>10 DEF vars, emitter
  <2>2. TypeOK'
    BY <2>1 DEF IInv, TypeOK, Frame, device
  <2>3. PartInv' /\ LayerInv' /\ EmptyInv'
    <3>1. live' \in [Columns -> SUBSET (1..Len(tasks))] /\ live' = live
      BY <2>1 DEF IInv, TypeOK
    <3> QED
      BY <2>1, <3>1, PlaceKept DEF IInv
  <2> QED
    BY <2>1, <2>2, <2>3, QueuesUntouched DEF IInv
<1> QED
  BY <1>1, <1>2, <1>3, <1>4, <1>5, <1>6, <1>7, <1>8, <1>9, <1>10
  DEF Next, Emit

-----------------------------------------------------------------------------
(* Stream sharing: the places of the positions in the frame.               *)

\* Membership, without the unions.
LEMMA PlacesMembers ==
  ASSUME NEW frame, NEW c, NEW ch, NEW l, NEW i, NEW p
  PROVE  p \in PlacesAhead(frame, c, ch, l, i) <=>
           \E k \in 1..l : \E j \in 1..Len(frame[k][c]) :
             /\ Carries(frame[k][c][j], ch) /\ (k < l \/ j < i)
             /\ p \in {<<k, j>>} \X DOMAIN frame[k][c][j].pos
  BY DEF PlacesAhead

\* Item i adds the places of its own positions, which are new.
LEMMA PlacesOfItem ==
  ASSUME NEW frame, NEW c, NEW ch, NEW l \in Nat \ {0}, NEW i \in Nat \ {0},
         i \in 1..Len(frame[l][c]), Carries(frame[l][c][i], ch),
         \A k \in 1..l : Len(frame[k][c]) \in Nat
  PROVE  LET own == {<<l, i>>} \X DOMAIN frame[l][c][i].pos
         IN  /\ PlacesAhead(frame, c, ch, l, i + 1) =
                  PlacesAhead(frame, c, ch, l, i) \cup own
             /\ PlacesAhead(frame, c, ch, l, i) \cap own = {}
<1> DEFINE own == {<<l, i>>} \X DOMAIN frame[l][c][i].pos
           old == PlacesAhead(frame, c, ch, l, i)
           new == PlacesAhead(frame, c, ch, l, i + 1)
<1>1. l \in 1..l
  OBVIOUS
<1>2. ASSUME NEW p \in new
      PROVE  p \in old \cup own
  <2>1. PICK k \in 1..l : \E j \in 1..Len(frame[k][c]) :
             /\ Carries(frame[k][c][j], ch) /\ (k < l \/ j < i + 1)
             /\ p \in {<<k, j>>} \X DOMAIN frame[k][c][j].pos
    BY PlacesMembers
  <2>2. PICK j \in 1..Len(frame[k][c]) :
             /\ Carries(frame[k][c][j], ch) /\ (k < l \/ j < i + 1)
             /\ p \in {<<k, j>>} \X DOMAIN frame[k][c][j].pos
    BY <2>1
  <2>3. j \in Nat /\ k \in Nat /\ (k = l \/ k < l)
    OBVIOUS
  <2>4. k < l \/ j < i \/ (k = l /\ j = i)
    BY <2>2, <2>3
  <2>5. CASE k < l \/ j < i
    <3>1. p \in old
      BY <2>2, <2>5, PlacesMembers
    <3> QED
      BY <3>1
  <2>6. CASE k = l /\ j = i
    BY <2>2, <2>6
  <2> QED
    BY <2>4, <2>5, <2>6
<1>3. ASSUME NEW p \in old
      PROVE  p \in new
  <2>0. p \in PlacesAhead(frame, c, ch, l, i)
    BY <1>3
  <2>1. PICK k \in 1..l : \E j \in 1..Len(frame[k][c]) :
             /\ Carries(frame[k][c][j], ch) /\ (k < l \/ j < i)
             /\ p \in {<<k, j>>} \X DOMAIN frame[k][c][j].pos
    BY <2>0, PlacesMembers
  <2>2. PICK j \in 1..Len(frame[k][c]) :
             /\ Carries(frame[k][c][j], ch) /\ (k < l \/ j < i)
             /\ p \in {<<k, j>>} \X DOMAIN frame[k][c][j].pos
    BY <2>1
  <2>3. k < l \/ j < i + 1
    BY <2>2
  <2> QED
    BY <2>2, <2>3, PlacesMembers
<1>4. ASSUME NEW p \in own
      PROVE  p \in new /\ p \notin old
  <2>1. i < i + 1
    OBVIOUS
  <2>2. p \in new
    BY <1>1, <2>1, PlacesMembers
  <2>3. SUFFICES ASSUME p \in old
                 PROVE  FALSE
    BY <2>2
  <2>4. PICK k \in 1..l : \E j \in 1..Len(frame[k][c]) :
             /\ Carries(frame[k][c][j], ch) /\ (k < l \/ j < i)
             /\ p \in {<<k, j>>} \X DOMAIN frame[k][c][j].pos
    BY <2>3, PlacesMembers
  <2>5. PICK j \in 1..Len(frame[k][c]) :
             /\ (k < l \/ j < i)
             /\ p \in {<<k, j>>} \X DOMAIN frame[k][c][j].pos
    BY <2>4
  <2>6. p[1] = <<l, i>> /\ p[1] = <<k, j>>
    BY <2>5
  <2>7. k = l /\ j = i
    BY <2>6
  <2> QED
    BY <2>5, <2>7
<1> HIDE DEF own, old, new
<1>5. new = old \cup own /\ old \cap own = {}
  BY <1>2, <1>3, <1>4
<1> QED
  BY <1>5 DEF own, old, new

\* Another item adds none, and behind a layer's items comes the next layer.
LEMMA PlacesKept ==
  ASSUME NEW frame, NEW c, NEW ch, NEW l \in Nat \ {0}, NEW i \in Nat \ {0},
         \A k \in 1..l : Len(frame[k][c]) \in Nat,
         i \in 1..Len(frame[l][c]) => ~ Carries(frame[l][c][i], ch)
  PROVE  PlacesAhead(frame, c, ch, l, i + 1) = PlacesAhead(frame, c, ch, l, i)
<1> DEFINE old == PlacesAhead(frame, c, ch, l, i)
           new == PlacesAhead(frame, c, ch, l, i + 1)
<1>1. ASSUME NEW p
      PROVE  p \in new <=> p \in old
  <2>1. ASSUME NEW k \in 1..l, NEW j \in 1..Len(frame[k][c]),
               Carries(frame[k][c][j], ch)
        PROVE  (k < l \/ j < i + 1) <=> (k < l \/ j < i)
    <3>1. j \in Nat /\ k \in Nat /\ (k = l \/ k < l)
      OBVIOUS
    <3>2. ~ (k = l /\ j = i)
      BY <2>1
    <3> QED
      BY <3>1, <3>2
  <2>2. (\E k \in 1..l : \E j \in 1..Len(frame[k][c]) :
             /\ Carries(frame[k][c][j], ch) /\ (k < l \/ j < i + 1)
             /\ p \in {<<k, j>>} \X DOMAIN frame[k][c][j].pos)
        <=> (\E k \in 1..l : \E j \in 1..Len(frame[k][c]) :
             /\ Carries(frame[k][c][j], ch) /\ (k < l \/ j < i)
             /\ p \in {<<k, j>>} \X DOMAIN frame[k][c][j].pos)
    BY <2>1
  <2> QED
    BY <2>2, PlacesMembers
<1> HIDE DEF old, new
<1>2. new = old
  BY <1>1
<1> QED
  BY <1>2 DEF old, new

LEMMA PlacesNextLayer ==
  ASSUME NEW frame, NEW c, NEW ch, NEW l \in Nat \ {0}, NEW i \in Nat \ {0},
         \A k \in 1..(l + 1) : Len(frame[k][c]) \in Nat,
         \A j \in 1..Len(frame[l][c]) : j < i
  PROVE  PlacesAhead(frame, c, ch, l + 1, 1) = PlacesAhead(frame, c, ch, l, i)
<1> DEFINE old == PlacesAhead(frame, c, ch, l, i)
           new == PlacesAhead(frame, c, ch, l + 1, 1)
<1>1. ASSUME NEW p \in new
      PROVE  p \in old
  <2>1. PICK k \in 1..(l + 1) : \E j \in 1..Len(frame[k][c]) :
             /\ Carries(frame[k][c][j], ch) /\ (k < l + 1 \/ j < 1)
             /\ p \in {<<k, j>>} \X DOMAIN frame[k][c][j].pos
    BY PlacesMembers
  <2>2. PICK j \in 1..Len(frame[k][c]) :
             /\ Carries(frame[k][c][j], ch) /\ (k < l + 1 \/ j < 1)
             /\ p \in {<<k, j>>} \X DOMAIN frame[k][c][j].pos
    BY <2>1
  <2>3. j \in Nat \ {0} /\ k \in Nat \ {0}
    OBVIOUS
  <2>4. k \in 1..l
    BY <2>2, <2>3
  <2>5. k < l \/ j < i
    BY <2>4
  <2> QED
    BY <2>2, <2>4, <2>5, PlacesMembers
<1>2. ASSUME NEW p \in old
      PROVE  p \in new
  <2>1. PICK k \in 1..l : \E j \in 1..Len(frame[k][c]) :
             /\ Carries(frame[k][c][j], ch)
             /\ p \in {<<k, j>>} \X DOMAIN frame[k][c][j].pos
    BY PlacesMembers
  <2>2. k \in 1..(l + 1) /\ k < l + 1
    OBVIOUS
  <2> QED
    BY <2>1, <2>2, PlacesMembers
<1> HIDE DEF old, new
<1>3. new = old
  BY <1>1, <1>2
<1> QED
  BY <1>3 DEF old, new

\* Nothing is ahead of the frame.
LEMMA PlacesFirst ==
  ASSUME NEW frame, NEW c, NEW ch, Len(frame[1][c]) \in Nat
  PROVE  PlacesAhead(frame, c, ch, 1, 1) = {}
<1>1. ASSUME NEW p \in PlacesAhead(frame, c, ch, 1, 1)
      PROVE  FALSE
  <2>1. PICK k \in 1..1 : \E j \in 1..Len(frame[k][c]) : k < 1 \/ j < 1
    BY PlacesMembers
  <2>2. k = 1
    OBVIOUS
  <2> QED
    BY <2>1, <2>2
<1> QED
  BY <1>1

-----------------------------------------------------------------------------
(* Quotients and remainders, and the issue order.                          *)

LEMMA Quotient ==
  ASSUME NEW a \in Nat, NEW d \in Nat \ {0}
  PROVE  /\ a \div d \in Nat /\ a % d \in 0..(d - 1)
         /\ a = (d * (a \div d)) + (a % d)
  OBVIOUS

\* A product of a number and a positive one is no less than either.
LEMMA Multiple ==
  ASSUME NEW d \in Nat \ {0}, NEW p \in Nat, NEW q \in Nat, p < q
  PROVE  d * p + d <= d * q
<1>1. PICK k \in Nat : q = p + 1 + k
  <2>1. q - p - 1 \in Nat /\ q = p + 1 + (q - p - 1)
    OBVIOUS
  <2> QED
    BY <2>1
<1>2. d * q = d * p + d + d * k
  BY <1>1
<1>3. d * k \in Nat
  OBVIOUS
<1>4. d * p \in Nat
  OBVIOUS
<1> QED
  BY <1>2, <1>3, <1>4

LEMMA QuotientIs ==
  ASSUME NEW d \in Nat \ {0}, NEW q \in Nat, NEW r \in 0..(d - 1),
         NEW a, a = (d * q) + r
  PROVE  a \in Nat /\ a \div d = q /\ a % d = r
<1> DEFINE p == a \div d  s == a % d
<1>1. d * q \in Nat /\ r \in Nat /\ a \in Nat
  OBVIOUS
<1>2. p \in Nat /\ s \in 0..(d - 1) /\ a = (d * p) + s
  BY <1>1, Quotient
<1> HIDE DEF p, s
<1>3. d * p \in Nat
  BY <1>2
<1>4. ~ (p < q)
  <2>1. SUFFICES ASSUME p < q PROVE FALSE
    OBVIOUS
  <2>2. d * p + d <= d * q
    BY <1>2, <2>1, Multiple
  <2> QED
    BY <1>1, <1>2, <1>3, <2>2
<1>5. ~ (q < p)
  <2>1. SUFFICES ASSUME q < p PROVE FALSE
    OBVIOUS
  <2>2. d * q + d <= d * p
    BY <1>2, <2>1, Multiple
  <2> QED
    BY <1>1, <1>2, <1>3, <2>2
<1>6. p = q
  BY <1>2, <1>4, <1>5
<1>7. s = r
  BY <1>1, <1>2, <1>3, <1>6
<1> QED
  BY <1>1, <1>6, <1>7 DEF p, s

\* The step to the next place moves on the column whose turn it was.
LEMMA NextPlace ==
  ASSUME at \in Nat \ {0}, at' = at + 1, NEW c \in Columns
  PROVE  NextRow(c)' = NextRow(c) + (IF c = Column THEN 1 ELSE 0)
<1> DEFINE a == at - 1  q == a \div Cols  r == a % Cols
<1>1. a \in Nat /\ Cols \in Nat \ {0}
  OBVIOUS
<1>2. q \in Nat /\ r \in 0..(Cols - 1) /\ a = (Cols * q) + r
  BY <1>1, Quotient
<1>3. at' - 1 = a + 1
  OBVIOUS
<1>4. Column = r + 1 /\ Row = q + 1
  BY DEF Column, Row
<1>5. Column' = ((a + 1) % Cols) + 1 /\ Row' = ((a + 1) \div Cols) + 1
  BY <1>3 DEF Column, Row
<1> HIDE DEF a, q, r
<1>6. CASE r < Cols - 1
  <2>1. r + 1 \in 0..(Cols - 1) /\ a + 1 = (Cols * q) + (r + 1)
    <3>1. Cols * q \in Nat
      BY <1>1, <1>2
    <3> QED
      BY <1>1, <1>2, <1>6, <3>1
  <2>2. (a + 1) \div Cols = q /\ (a + 1) % Cols = r + 1
    <3> DEFINE b == a + 1  t == r + 1
    <3>1. b = (Cols * q) + t /\ t \in 0..(Cols - 1)
      BY <2>1
    <3> HIDE DEF b, t
    <3>2. b \div Cols = q /\ b % Cols = t
      BY <1>1, <1>2, <3>1, QuotientIs
    <3> QED
      BY <3>2 DEF b, t
  <2>3. Column' = Column + 1 /\ Row' = Row /\ Column \in Int /\ Row \in Int
    BY <1>2, <1>4, <1>5, <2>2
  <2> QED
    BY <2>3 DEF NextRow
<1>7. CASE r = Cols - 1
  <2>1. 0 \in 0..(Cols - 1) /\ a + 1 = (Cols * (q + 1)) + 0
    <3>1. Cols * (q + 1) = Cols * q + Cols /\ Cols * q \in Nat
      BY <1>1, <1>2
    <3> QED
      BY <1>1, <1>2, <1>7, <3>1
  <2>2. (a + 1) \div Cols = q + 1 /\ (a + 1) % Cols = 0
    <3> DEFINE b == a + 1  p == q + 1  z == 0
    <3>1. b = (Cols * p) + z /\ p \in Nat /\ z \in 0..(Cols - 1)
      BY <1>2, <2>1
    <3> HIDE DEF b, p, z
    <3>2. b \div Cols = p /\ b % Cols = z
      BY <1>1, <3>1, QuotientIs
    <3>3. b \div Cols = p /\ b % Cols = 0
      BY <3>2 DEF z
    <3> QED
      BY <3>3 DEF b, p
  <2>3. Column' = 1 /\ Row' = Row + 1 /\ Column = Cols /\ Row \in Int
    BY <1>1, <1>2, <1>4, <1>5, <1>7, <2>2
  <2>4. c \in 1..Cols
    OBVIOUS
  <2>5. ~ (c < 1) /\ (c = Cols \/ c < Cols)
    BY <1>1, <2>4
  <2> QED
    BY <1>1, <2>3, <2>4, <2>5 DEF NextRow
<1> QED
  BY <1>1, <1>2, <1>6, <1>7

\* A layer starts with the first item of every column.
LEMMA FirstPlace ==
  ASSUME at = 1, NEW c \in Columns
  PROVE  NextRow(c) = 1
<1>1. at - 1 = (Cols * 0) + 0 /\ 0 \in 0..(Cols - 1)
  OBVIOUS
<1>2. Column = 1 /\ Row = 1
  BY <1>1, QuotientIs DEF Column, Row
<1> QED
  BY <1>2 DEF NextRow

LEMMA RowTypes ==
  ASSUME at \in Nat \ {0}, NEW c \in Columns
  PROVE  NextRow(c) \in Nat \ {0}
  BY IssuePosition DEF NextRow

\* Finitely many numbers have a bound.
LEMMA Bounded ==
  ASSUME NEW n \in Nat, NEW f \in [1..n -> Nat]
  PROVE  \E m \in Nat : \A d \in 1..n : f[d] <= m
<1> DEFINE B(k) == \E m \in Nat : \A d \in 1..k : f[d] <= m
           T == {k \in 0..n : ~ B(k)}
<1>1. SUFFICES ASSUME T # {}
               PROVE  FALSE
  <2>1. n \in 0..n
    OBVIOUS
  <2> QED
    BY <2>1
<1>2. T \subseteq Nat
  OBVIOUS
<1>3. PICK k \in T : \A y \in T : ~ (<<y, k>> \in OpToRel(<, Nat))
  BY <1>1, <1>2, NatLessThanWellFounded, WFMin
<1>4. k \in 0..n /\ ~ B(k)
  OBVIOUS
<1>5. k # 0
  <2>1. 0 \in Nat /\ \A d \in 1..0 : f[d] <= 0
    OBVIOUS
  <2>2. B(0)
    BY <2>1
  <2> QED
    BY <1>4, <2>2
<1>6. k - 1 \in 0..n /\ k - 1 \in Nat /\ k \in Nat
  BY <1>4, <1>5
<1>7. k - 1 \notin T
  <2>1. <<k - 1, k>> \in OpToRel(<, Nat)
    BY <1>6 DEF OpToRel
  <2> QED
    BY <1>3, <2>1
<1>8. PICK m \in Nat : \A d \in 1..(k - 1) : f[d] <= m
  BY <1>6, <1>7
<1>9. f[k] \in Nat
  BY <1>4, <1>5
<1>10. m + f[k] \in Nat /\ \A d \in 1..k : f[d] <= m + f[k]
  <2>1. ASSUME NEW d \in 1..k
        PROVE  f[d] <= m + f[k]
    <3>1. f[d] \in Nat
      BY <1>4
    <3>2. d = k \/ d \in 1..(k - 1)
      BY <1>6
    <3> QED
      BY <1>8, <1>9, <3>1, <3>2
  <2> QED
    BY <1>9, <2>1
<1> QED
  BY <1>4, <1>10

\* When no item is left every column is past its last.
LEMMA NothingLeft ==
  ASSUME at \in Nat \ {0}, ~ ItemsLeft, NEW c \in Columns,
         \A d \in Columns : Len(Program(d)) \in Nat
  PROVE  Len(Program(c)) < NextRow(c)
<1> DEFINE S == {Len(Program(d)) : d \in Columns}
           a == at - 1  q == a \div Cols  r == a % Cols
<1>1. S \subseteq Nat /\ Len(Program(c)) \in S
  OBVIOUS
<1>2. PICK m \in Nat : S \subseteq 0..m
  <2> DEFINE f == [d \in Columns |-> Len(Program(d))]
  <2>1. f \in [1..Cols -> Nat] /\ Cols \in Nat
    OBVIOUS
  <2>2. PICK m \in Nat : \A d \in 1..Cols : f[d] <= m
    <3> HIDE DEF f
    <3> QED
      BY <2>1, Bounded
  <2>3. \A d \in Columns : Len(Program(d)) <= m
    BY <2>2
  <2>4. S \subseteq 0..m
    BY <1>1, <2>3
  <2> QED
    BY <2>4
<1>3. Longest = Newest(S)
  BY DEF Longest
<1> HIDE DEF S
<1>4. Longest \in Nat /\ Len(Program(c)) <= Longest
  BY <1>1, <1>2, <1>3, NewestBound
<1>5. a \in Nat /\ Cols \in Nat \ {0} /\ Row = q + 1
  BY DEF Row
<1>6. q \in Nat /\ r \in 0..(Cols - 1) /\ a = (Cols * q) + r
  BY <1>5, Quotient
<1>7. ~ (a + 1 <= Longest * Cols)
  BY <1>5 DEF ItemsLeft
<1> HIDE DEF a, q, r
<1>8. ~ (q < Longest)
  <2>1. SUFFICES ASSUME q < Longest
                 PROVE  FALSE
    OBVIOUS
  <2>2. Cols * q + Cols <= Cols * Longest
    BY <1>4, <1>5, <1>6, <2>1, Multiple
  <2>3. Cols * q \in Nat /\ Cols * Longest \in Nat
        /\ Cols * Longest = Longest * Cols
    BY <1>4, <1>5, <1>6
  <2>4. a < Cols * q + Cols
    BY <1>5, <1>6, <2>3
  <2> QED
    BY <1>5, <1>7, <2>2, <2>3, <2>4
<1>9. Longest < Row /\ Row \in Nat
  BY <1>4, <1>5, <1>6, <1>8
<1>10. Row <= NextRow(c) /\ NextRow(c) \in Nat
  BY <1>9 DEF NextRow
<1> QED
  BY <1>1, <1>4, <1>9, <1>10

-----------------------------------------------------------------------------
(* What a column's channels were given, with stream sharing.               *)

\* The k-th activation is the one that its channel's count says.
LEMMA ActivationIs ==
  ASSUME Sharing, NEW k \in Nat \ {0}
  PROVE  /\ Shared(k) \in Nat /\ Direct(k) \in Nat
         /\ Shared(k) > Shared(k - 1)
            => Shared(k) > 0 /\ Activation("w", Shared(k)) = k
         /\ ~ (Shared(k) > Shared(k - 1))
            => Direct(k) > 0 /\ Activation("a", Direct(k)) = k
<1> DEFINE d == Period  q == k \div d  r == k % d
<1>1. d \in Nat \ {0} /\ k \in Nat
  OBVIOUS
<1>2. q \in Nat /\ r \in 0..(d - 1) /\ k = (d * q) + r
  BY <1>1, Quotient
<1>3. Shared(k) = q /\ Shared(k - 1) = (k - 1) \div d /\ Direct(k) = k - q
  BY DEF Shared, Direct
<1> HIDE DEF d, q, r
<1>4. d * q \in Nat
  BY <1>1, <1>2
<1>5. q <= d * q
  <2>1. CASE q = 0
    BY <1>4, <2>1
  <2>2. CASE q # 0
    <3> DEFINE e == d - 1
    <3>1. e \in Nat /\ d = e + 1 /\ e * q \in Nat
      BY <1>1, <1>2
    <3>2. d * q = e * q + q
      BY <1>2, <3>1
    <3> HIDE DEF e
    <3> QED
      BY <1>2, <3>1, <3>2
  <2> QED
    BY <2>1, <2>2
<1>6. k - q \in Nat
  BY <1>2, <1>4, <1>5
<1>7. CASE r = 0
  <2>1. q # 0
    <3>1. q = 0 => d * q = 0
      BY <1>1
    <3> QED
      BY <1>1, <1>2, <1>7, <3>1
  <2>2. q > 0 /\ Activation("w", q) = k
    <3>1. Activation("w", q) = d * q
      BY DEF Activation, d
    <3> QED
      BY <1>2, <1>4, <1>7, <2>1, <3>1
  <2>3. Shared(k) > Shared(k - 1)
    <3> DEFINE p == q - 1  z == d - 1  b == k - 1
    <3>1. p \in Nat /\ z \in 0..(d - 1) /\ d * q = d * p + d /\ d * p \in Nat
      BY <1>1, <1>2, <2>1
    <3>2. b = (d * p) + z
      BY <1>1, <1>2, <1>4, <1>7, <3>1
    <3> HIDE DEF p, z, b
    <3>3. b \div d = p
      BY <1>1, <3>1, <3>2, QuotientIs
    <3>4. (k - 1) \div d = q - 1
      BY <3>3 DEF b, p
    <3> QED
      BY <1>2, <1>3, <3>4
  <2> QED
    BY <1>2, <1>3, <1>6, <2>2, <2>3
<1>8. CASE r # 0
  <2>1. ~ (Shared(k) > Shared(k - 1))
    <3> DEFINE z == r - 1  b == k - 1
    <3>1. z \in 0..(d - 1) /\ b = (d * q) + z
      BY <1>1, <1>2, <1>4, <1>8
    <3> HIDE DEF z, b
    <3>2. b \div d = q
      BY <1>1, <1>2, <3>1, QuotientIs
    <3>3. (k - 1) \div d = q
      BY <3>2 DEF b
    <3> QED
      BY <1>2, <1>3, <3>3
  <2>2. k - q > 0 /\ Activation("a", k - q) = k
    <3> DEFINE e == d - 1  z == r - 1  b == (k - q) - 1
    <3>1. e \in Nat \ {0} /\ z \in 0..(e - 1) /\ d = e + 1 /\ e * q \in Nat
      BY <1>1, <1>2, <1>8
    <3>2. d * q = e * q + q
      BY <1>2, <3>1
    <3>3. b = (e * q) + z /\ k - q > 0
      BY <1>2, <1>4, <1>8, <3>1, <3>2
    <3>4. Activation("a", k - q) = (k - q) + (b \div e)
      BY DEF Activation, d
    <3> HIDE DEF e, z, b
    <3>5. b \div e = q
      BY <1>2, <3>1, <3>3, QuotientIs
    <3> QED
      BY <1>2, <1>6, <3>3, <3>4, <3>5
  <2> QED
    BY <1>2, <1>3, <1>6, <2>1, <2>2
<1> QED
  BY <1>2, <1>7, <1>8

\* Units behind those of a channel that bring no activation of its own.
LEMMA ZeroTypes ==
  ASSUME NEW w, NEW n \in Nat
  PROVE  IsFiniteSet(ZeroUnits(w, n)) /\ Cardinality(ZeroUnits(w, n)) \in Nat
<1>1. ZeroUnits(w, n) \in SUBSET (1..n) /\ IsFiniteSet(1..n)
  BY FS_Interval DEF ZeroUnits
<1>2. IsFiniteSet(ZeroUnits(w, n))
  BY <1>1, FS_Subset
<1> QED
  BY <1>2, FS_CardinalityType

LEMMA ZerosAdded ==
  ASSUME NEW w \in Seq(Nat), NEW units \in Seq(Nat),
         \A m \in 1..Len(units) : units[m] = 0
  PROVE  /\ Len(w \o units) = Len(w) + Len(units)
         /\ Cardinality(ZeroUnits(w \o units, Len(w \o units))) =
              Cardinality(ZeroUnits(w, Len(w))) + Len(units)
<1> DEFINE u == w \o units  n == Len(w)  k == Len(units)
           old == ZeroUnits(w, n)
           added == (n + 1)..(n + k)
<1>1. /\ n \in Nat /\ k \in Nat /\ Len(u) = n + k
      /\ \A i \in 1..(n + k) : u[i] = IF i <= n THEN w[i] ELSE units[i - n]
  BY ConcatProperties
<1>a. \A m \in 1..k : units[m] = 0
  OBVIOUS
<1> HIDE DEF u, n, k
<1>2. \A i \in 1..n : u[i] = w[i] /\ i \in 1..(n + k)
  BY <1>1
<1>3. \A i \in added : u[i] = 0 /\ i \in 1..(n + k) /\ i \notin 1..n
  <2> SUFFICES ASSUME NEW i \in added
               PROVE  u[i] = 0 /\ i \in 1..(n + k) /\ i \notin 1..n
    OBVIOUS
  <2>1. i \in 1..(n + k) /\ ~ (i <= n) /\ i - n \in 1..k
    BY <1>1
  <2>2. units[i - n] = 0
    BY <1>a, <2>1
  <2>3. u[i] = units[i - n] /\ i \notin 1..n
    BY <1>1, <2>1
  <2> QED
    BY <2>1, <2>2, <2>3
<1>4. 1..(n + k) = (1..n) \cup added
  BY <1>1
<1>5. IsFiniteSet(added) /\ Cardinality(added) = k
  <2> DEFINE a == n + 1  b == n + k
  <2>1. a \in Int /\ b \in Int
    BY <1>1
  <2>2. (IF a > b THEN 0 ELSE b - a + 1) = k
    BY <1>1
  <2> HIDE DEF a, b
  <2>3. IsFiniteSet(a..b) /\ Cardinality(a..b) = k
    BY <2>1, <2>2, FS_Interval
  <2> QED
    BY <2>3 DEF a, b
<1>6. added \cap 1..n = {}
  BY <1>3
<1> HIDE DEF added
<1>7. ZeroUnits(u, n + k) = old \cup added /\ old \cap added = {}
  BY <1>2, <1>3, <1>4, <1>6 DEF ZeroUnits
<1>8. IsFiniteSet(old) /\ Cardinality(old) \in Nat
  BY <1>1, ZeroTypes
<1>9. Cardinality(old \cup added) =
        Cardinality(old) + Cardinality(added) - Cardinality({})
  BY <1>5, <1>7, <1>8, FS_Union
<1>10. Cardinality(old \cup added) = Cardinality(old) + k
  BY <1>1, <1>5, <1>8, <1>9, FS_EmptySet
<1> QED
  BY <1>1, <1>7, <1>10 DEF u, n, k

LEMMA NoZerosAdded ==
  ASSUME NEW w \in Seq(Nat), NEW units \in Seq(Nat),
         \A m \in 1..Len(units) : units[m] # 0
  PROVE  /\ Len(w \o units) = Len(w) + Len(units)
         /\ ZeroUnits(w \o units, Len(w \o units)) = ZeroUnits(w, Len(w))
<1> DEFINE u == w \o units  n == Len(w)  k == Len(units)
<1>1. /\ n \in Nat /\ k \in Nat /\ Len(u) = n + k
      /\ \A i \in 1..(n + k) : u[i] = IF i <= n THEN w[i] ELSE units[i - n]
  BY ConcatProperties
<1>a. \A m \in 1..k : units[m] # 0
  OBVIOUS
<1> HIDE DEF u, n, k
<1>2. \A i \in 1..n : u[i] = w[i] /\ i \in 1..(n + k)
  BY <1>1
<1>3. ASSUME NEW i \in 1..(n + k), i \notin 1..n
      PROVE  u[i] # 0
  <2>1. ~ (i <= n) /\ i - n \in 1..k
    BY <1>1, <1>3
  <2> QED
    BY <1>1, <1>a, <2>1
<1>4. ZeroUnits(u, n + k) = ZeroUnits(w, n)
  BY <1>2, <1>3 DEF ZeroUnits
<1> QED
  BY <1>1, <1>4 DEF u, n, k

\* A task of the weight channel brings the positions of a "P" item, as units
\* of their own, or weight objects only.
LEMMA StreamedMarks ==
  ASSUME NEW st \in Started, Marks(st), NEW item, ItemTyped(item),
         item.ch = "w", NEW load,
         WeightsItem(item) => load = item.load,
         ~ WeightsItem(item) => load \in Nat /\ load = Len(item.pos)
  PROVE  LET new == Streamed(st, item, load)
         IN  /\ Marks(new) /\ new.direct = st.direct /\ new.a = st.a
             /\ new.shared = IF Carries(item, "w") THEN st.shared \o item.pos
                             ELSE st.shared
             /\ Len(st.w) <= Len(new.w)
<1> DEFINE new == Streamed(st, item, load)
           w == st.w  n == Len(st.w)
<1>1. /\ w \in Seq(Nat) /\ w = st.w /\ n = Len(w) /\ n \in Nat
      /\ st.emits \in Seq(BOOLEAN)
      /\ st.shared \in Seq(Nat) /\ item.pos \in Seq(Nat)
      /\ Len(st.emits) \in Nat
  BY DEF Started, ItemTyped
<1>2. Cardinality(ZeroUnits(w, n)) = Len(st.shared)
      /\ Len(st.shared) \in Nat
  BY <1>1 DEF Marks
<1> HIDE DEF w, n
<1>3. CASE item.gives = 1
  <2> DEFINE units == [m \in 1..load |-> 0]
             u == w \o units
  <2>1. load = Len(item.pos) /\ load \in Nat
    BY <1>1, <1>3 DEF WeightsItem
  <2>2. units \in Seq(Nat) /\ Len(units) = load
    BY <2>1
  <2>3. \A m \in 1..load : units[m] = 0
    OBVIOUS
  <2>4. new = [st EXCEPT !.w = u, !.shared = st.shared \o item.pos]
    BY <1>1, <1>3 DEF Streamed
  <2>a. u = w \o units
    OBVIOUS
  <2> HIDE DEF new, units, u
  <2>5. Len(u) = n + load
        /\ Cardinality(ZeroUnits(u, n + load)) = Len(st.shared) + load
    <3>1. w \in Seq(Nat) /\ n = Len(w) /\ load = Len(units)
          /\ units \in Seq(Nat)
      BY <1>1, <2>2
    <3>a. \A m \in 1..Len(units) : units[m] = 0
      BY <2>3, <3>1
    <3>b. /\ Len(w \o units) = Len(w) + Len(units)
          /\ Cardinality(ZeroUnits(w \o units, Len(w \o units))) =
               Cardinality(ZeroUnits(w, Len(w))) + Len(units)
      BY <3>1, <3>a, ZerosAdded
    <3>2. /\ Len(u) = n + load
          /\ Cardinality(ZeroUnits(u, n + load)) =
               Cardinality(ZeroUnits(w, n)) + load
      BY <2>a, <3>1, <3>b
    <3> QED
      BY <1>2, <3>2
  <2>6. Len(st.shared \o item.pos) = Len(st.shared) + load
    BY <1>1, <2>1, ConcatProperties
  <2>7. /\ new.w = u /\ new.shared = st.shared \o item.pos
        /\ new.a = st.a /\ new.direct = st.direct
    BY <2>4 DEF Started
  <2>8. Marks(new)
    BY <2>5, <2>6, <2>7 DEF Marks
  <2>9. n <= Len(new.w)
    <3>1. n \in Nat /\ load \in Nat
      BY <1>1, <2>1
    <3>2. Len(new.w) = n + load
      BY <2>5, <2>7
    <3> QED
      BY <3>1, <3>2
  <2>10. Carries(item, "w")
    BY <1>3 DEF Carries
  <2> QED
    BY <2>7, <2>8, <2>9, <2>10, <1>1 DEF new
<1>4. CASE item.gives # 1
  <2> DEFINE ends == load.ends  e == Len(st.emits)  k == Len(ends)
             units == [m \in DOMAIN ends |-> Len(st.emits) + ends[m]]
             u == w \o units
  <2>1. load = item.load
    BY <1>4 DEF WeightsItem
  <2>2. ends \in Seq(Nat \ {0}) /\ load.emits \in Seq(BOOLEAN)
    BY <1>4, <2>1 DEF ItemTyped, WeightsItem
  <2>3. new = [st EXCEPT !.w = u, !.emits = st.emits \o load.emits]
    BY <1>1, <1>4 DEF Streamed
  <2> HIDE DEF new, ends
  <2>4. /\ DOMAIN ends = 1..k /\ k \in Nat
        /\ \A m \in 1..k : ends[m] \in Nat \ {0}
    BY <2>2
  <2>5. /\ units = [m \in 1..k |-> e + ends[m]]
        /\ \A m \in 1..k : e + ends[m] \in Nat \ {0}
    BY <1>1, <2>4
  <2> HIDE DEF e, k, units
  <2>6. units \in [1..k -> Nat] /\ \A m \in 1..k : units[m] # 0
    BY <2>5
  <2>7. units \in Seq(Nat) /\ Len(units) = k
    BY <2>4, <2>6
  <2>a. u = w \o units
    OBVIOUS
  <2> HIDE DEF u
  <2>8. Len(u) = n + k /\ ZeroUnits(u, n + k) = ZeroUnits(w, n)
    <3>1. w \in Seq(Nat) /\ n = Len(w) /\ k = Len(units)
          /\ units \in Seq(Nat) /\ \A m \in 1..Len(units) : units[m] # 0
      BY <1>1, <2>6, <2>7
    <3>2. /\ Len(w \o units) = Len(w) + Len(units)
          /\ ZeroUnits(w \o units, Len(w \o units)) = ZeroUnits(w, Len(w))
      BY <3>1, NoZerosAdded
    <3> QED
      BY <2>a, <3>1, <3>2
  <2>9. /\ new.w = u /\ new.shared = st.shared
        /\ new.a = st.a /\ new.direct = st.direct
    BY <2>3 DEF Started
  <2>10. Marks(new)
    BY <1>1, <1>2, <2>8, <2>9 DEF Marks
  <2>11. n <= Len(new.w)
    BY <1>1, <2>4, <2>8, <2>9
  <2>12. ~ Carries(item, "w")
    BY <1>4 DEF Carries
  <2> QED
    BY <2>9, <2>10, <2>11, <2>12, <1>1 DEF new
<1> QED
  BY <1>3, <1>4

\* Marks up to a number, and more up to a larger one, which is the last.
LEMMA MarksAdded ==
  ASSUME NEW a \in Seq(Nat), NEW fills \in Seq(Nat), NEW m \in Nat,
         Len(fills) > 0, fills[Len(fills)] = m,
         \A n \in 1..Len(a) : a[n] <= m,
         \A n \in 1..Len(fills) : fills[n] <= m
  PROVE  /\ UpTo(a \o fills, Len(a \o fills)) = m
         /\ \A n \in 1..Len(a \o fills) : (a \o fills)[n] <= m
         /\ Len(a) <= Len(a \o fills)
<1> DEFINE u == a \o fills  i == Len(a)  k == Len(fills)
<1>1. /\ i \in Nat /\ k \in Nat /\ k > 0 /\ Len(u) = i + k
      /\ \A n \in 1..(i + k) : u[n] = IF n <= i THEN a[n] ELSE fills[n - i]
  BY ConcatProperties
<1>2. fills[k] = m /\ \A n \in 1..i : a[n] <= m
  OBVIOUS
<1>3. \A n \in 1..k : fills[n] <= m
  OBVIOUS
<1> HIDE DEF u, i, k
<1>4. i + k \in 1..(i + k) /\ ~ (i + k <= i) /\ (i + k) - i = k
  BY <1>1
<1>5. u[i + k] = m
  BY <1>1, <1>2, <1>4
<1>6. ASSUME NEW n \in 1..(i + k)
      PROVE  u[n] <= m
  <2>1. CASE n <= i
    <3>1. n \in 1..i
      BY <1>1, <2>1
    <3> QED
      BY <1>1, <1>2, <2>1, <3>1
  <2>2. CASE ~ (n <= i)
    <3>1. n - i \in 1..k
      BY <1>1, <2>2
    <3>2. u[n] = fills[n - i]
      BY <1>1, <2>2
    <3> QED
      BY <1>3, <3>1, <3>2
  <2> QED
    BY <2>1, <2>2
<1>7. UpTo(u, Len(u)) = m
  BY <1>1, <1>4, <1>5 DEF UpTo
<1>8. i <= Len(u)
  BY <1>1
<1> QED
  BY <1>1, <1>6, <1>7, <1>8 DEF u, i, k

\* The marks of a fill that ends with the load-th activation behind base.
FillOf(base, load) == IF load = 0 THEN <<base>>
                      ELSE [n \in 1..load |-> base + n]

LEMMA FillMarks ==
  ASSUME NEW base \in Nat, NEW load \in Nat
  PROVE  /\ FillOf(base, load) \in Seq(Nat) /\ Len(FillOf(base, load)) > 0
         /\ base + load \in Nat
         /\ FillOf(base, load)[Len(FillOf(base, load))] = base + load
         /\ \A n \in 1..Len(FillOf(base, load)) :
              FillOf(base, load)[n] <= base + load
<1> DEFINE fills == FillOf(base, load)
<1>1. CASE load = 0
  <2>1. fills = <<base>>
    BY <1>1 DEF FillOf
  <2> HIDE DEF fills
  <2>2. /\ fills \in Seq(Nat) /\ Len(fills) > 0 /\ base + load \in Nat
        /\ fills[Len(fills)] = base + load
        /\ \A n \in 1..Len(fills) : fills[n] <= base + load
    BY <1>1, <2>1
  <2> QED
    BY <2>2 DEF fills
<1>2. CASE load # 0
  <2> DEFINE more == [n \in 1..load |-> base + n]
  <2>1. fills = more
    BY <1>2 DEF FillOf
  <2>2. \A n \in 1..load : base + n \in Nat /\ more[n] = base + n
    OBVIOUS
  <2>3. more \in [1..load -> Nat] /\ more \in Seq(Nat) /\ Len(more) = load
    BY <2>2
  <2> HIDE DEF more
  <2>4. /\ more[load] = base + load
        /\ \A n \in 1..load : more[n] <= base + load
    BY <1>2, <2>2, <2>3
  <2>5. /\ more \in Seq(Nat) /\ Len(more) > 0 /\ base + load \in Nat
        /\ more[Len(more)] = base + load
        /\ \A n \in 1..Len(more) : more[n] <= base + load
    BY <1>2, <2>3, <2>4
  <2> HIDE DEF fills
  <2>6. /\ fills \in Seq(Nat) /\ Len(fills) > 0 /\ base + load \in Nat
        /\ fills[Len(fills)] = base + load
        /\ \A n \in 1..Len(fills) : fills[n] <= base + load
    BY <2>1, <2>5
  <2> QED
    BY <2>6 DEF fills
<1> QED
  BY <1>1, <1>2

\* The bound of some marks may be raised.
LEMMA BoundRaised ==
  ASSUME NEW a \in Seq(Nat), NEW b \in Nat, NEW m \in Nat, b <= m,
         \A n \in 1..Len(a) : a[n] <= b
  PROVE  \A n \in 1..Len(a) : a[n] <= m
<1> SUFFICES ASSUME NEW n \in 1..Len(a)
             PROVE  a[n] <= m
  OBVIOUS
<1>1. a[n] \in Nat /\ a[n] <= b
  OBVIOUS
<1> QED
  BY <1>1

\* A fill brings the positions of its item, as a mark for each.
LEMMA FetchedMarks ==
  ASSUME NEW st \in Started, Marks(st), NEW item, ItemTyped(item),
         item.ch = "a", NEW load \in Nat,
         Carries(item, "a") => load = Len(item.pos)
  PROVE  /\ Marks(Fetched(st, item, load))
         /\ Fetched(st, item, load).shared = st.shared
         /\ Fetched(st, item, load).w = st.w
         /\ Fetched(st, item, load).direct = st.direct \o item.pos
         /\ Len(st.a) <= Len(Fetched(st, item, load).a)
<1> DEFINE new == Fetched(st, item, load)
           a == st.a
           base == UpTo(a, Len(a))
           fills == FillOf(base, load)
<1>1. /\ a \in Seq(Nat) /\ st.direct \in Seq(Nat) /\ item.pos \in Seq(Nat)
  BY DEF Started, ItemTyped
<1>2. base \in Nat /\ base = Len(st.direct)
      /\ \A n \in 1..Len(a) : a[n] <= base
  BY <1>1 DEF Marks
<1>3. new = [st EXCEPT !.a = a \o fills, !.direct = st.direct \o item.pos]
  BY DEF Fetched, FillOf
<1> HIDE DEF new, base
<1>4. fills = FillOf(base, load)
  OBVIOUS
<1> HIDE DEF fills
<1>5. /\ fills \in Seq(Nat) /\ Len(fills) > 0 /\ base + load \in Nat
      /\ fills[Len(fills)] = base + load
      /\ \A n \in 1..Len(fills) : fills[n] <= base + load
  BY <1>2, <1>4, FillMarks
<1> DEFINE m == base + load
<1>6. Len(st.direct \o item.pos) = m
  <2>1. Len(st.direct \o item.pos) = Len(st.direct) + Len(item.pos)
    BY <1>1, ConcatProperties
  <2>2. load = Len(item.pos)
    BY DEF Carries
  <2> QED
    BY <1>2, <2>1, <2>2
<1>7. m \in Nat /\ base <= m
  BY <1>2, <1>5
<1>a. fills[Len(fills)] = m /\ \A n \in 1..Len(fills) : fills[n] <= m
  BY <1>5
<1> HIDE DEF m, a
<1>8. /\ UpTo(a \o fills, Len(a \o fills)) = m
      /\ \A n \in 1..Len(a \o fills) : (a \o fills)[n] <= m
      /\ Len(a) <= Len(a \o fills)
  <2>1. \A n \in 1..Len(a) : a[n] <= m
    BY <1>1, <1>2, <1>7, BoundRaised
  <2> QED
    <3>1. a \in Seq(Nat) /\ fills \in Seq(Nat) /\ m \in Nat
      BY <1>1, <1>5, <1>7
    <3>2. Len(fills) > 0 /\ fills[Len(fills)] = m
      BY <1>5, <1>a
    <3>3. \A n \in 1..Len(fills) : fills[n] <= m
      BY <1>a
    <3> QED
      BY <2>1, <3>1, <3>2, <3>3, MarksAdded
<1>9. /\ new.a = a \o fills /\ new.direct = st.direct \o item.pos
      /\ new.w = st.w /\ new.shared = st.shared
  BY <1>3 DEF Started
<1>10. Marks(new)
  BY <1>6, <1>8, <1>9 DEF Marks
<1>11. Len(a) <= Len(new.a)
  BY <1>8, <1>9
<1> QED
  BY <1>9, <1>10, <1>11 DEF new, a

\* Any task brings its channel the positions of its item, if it has any.
LEMMA ExtendedMarks ==
  ASSUME NEW st \in Started, Marks(st), NEW item, ItemTyped(item),
         NEW load,
         WeightsItem(item) => load = item.load,
         ~ WeightsItem(item) => load \in Nat,
         Carries(item, "w") \/ Carries(item, "a") => load = Len(item.pos)
  PROVE  /\ Marks(Extended(st, item, load))
         /\ Extended(st, item, load).shared =
              IF Carries(item, "w") THEN st.shared \o item.pos ELSE st.shared
         /\ Extended(st, item, load).direct =
              IF Carries(item, "a") THEN st.direct \o item.pos ELSE st.direct
         /\ Len(st.w) <= Len(Extended(st, item, load).w)
         /\ Len(st.a) <= Len(Extended(st, item, load).a)
<1> DEFINE new == Extended(st, item, load)
<1>1. Len(st.w) \in Nat /\ Len(st.a) \in Nat
  BY DEF Started
<1>2. CASE item.ch = "w"
  <2>1. new = Streamed(st, item, load)
    BY <1>2 DEF Extended
  <2>2. ~ Carries(item, "a") /\ (~ WeightsItem(item) => Carries(item, "w"))
    BY <1>2 DEF Carries, WeightsItem
  <2>3. ~ WeightsItem(item) => load \in Nat /\ load = Len(item.pos)
    BY <2>2
  <2>4. /\ Marks(new) /\ new.direct = st.direct /\ new.a = st.a
        /\ new.shared = IF Carries(item, "w") THEN st.shared \o item.pos
                        ELSE st.shared
        /\ Len(st.w) <= Len(new.w)
    BY <1>2, <2>1, <2>3, StreamedMarks
  <2> HIDE DEF new
  <2>5. Len(st.a) <= Len(new.a)
    BY <1>1, <2>4
  <2> QED
    BY <2>2, <2>4, <2>5 DEF new
<1>3. CASE item.ch = "a"
  <2>1. new = Fetched(st, item, load)
    BY <1>3 DEF Extended
  <2>2. Carries(item, "a") /\ ~ Carries(item, "w") /\ ~ WeightsItem(item)
    BY <1>3 DEF Carries, WeightsItem
  <2> HIDE DEF new
  <2>3. load \in Nat
    BY <2>2
  <2>a. Carries(item, "a") => load = Len(item.pos)
    OBVIOUS
  <2>4. /\ Marks(new) /\ new.shared = st.shared /\ new.w = st.w
        /\ new.direct = st.direct \o item.pos
        /\ Len(st.a) <= Len(new.a)
    <3>1. /\ Marks(Fetched(st, item, load))
          /\ Fetched(st, item, load).shared = st.shared
          /\ Fetched(st, item, load).w = st.w
          /\ Fetched(st, item, load).direct = st.direct \o item.pos
          /\ Len(st.a) <= Len(Fetched(st, item, load).a)
      BY <1>3, <2>3, <2>a, FetchedMarks
    <3> QED
      BY <2>1, <3>1
  <2>5. Len(st.w) <= Len(new.w)
    BY <1>1, <2>4
  <2> QED
    BY <2>2, <2>4, <2>5 DEF new
<1>4. CASE item.ch = "o"
  <2>1. new = [st EXCEPT !.o = st.o + load]
    BY <1>4 DEF Extended
  <2>2. ~ Carries(item, "a") /\ ~ Carries(item, "w")
    BY <1>4 DEF Carries
  <2> HIDE DEF new
  <2>3. /\ new.w = st.w /\ new.a = st.a /\ new.shared = st.shared
        /\ new.direct = st.direct
    BY <2>1 DEF Started
  <2>4. Marks(new)
    BY <2>3 DEF Marks
  <2> QED
    BY <1>1, <2>2, <2>3, <2>4 DEF new
<1> QED
  BY <1>2, <1>3, <1>4 DEF ItemTyped

\* The frame's programs have lengths, and the layer is one of the frame's.
LEMMA ProgramTypes ==
  ASSUME TypeOK
  PROVE  /\ layer \in Nat \ {0} /\ layer <= Len(Frame) /\ Len(Frame) \in Nat
         /\ setting \in Settings
         /\ \A k \in 1..Len(Frame), c \in Columns : Len(Frame[k][c]) \in Nat
         /\ \A k \in 1..layer, c \in Columns : Len(Frame[k][c]) \in Nat
         /\ \A c \in Columns : Len(Program(c)) \in Nat
<1>1. setting \in Settings /\ layer \in 1..Len(Frame)
  BY DEF TypeOK
<1>2. /\ Len(setting.frame) \in Nat
      /\ \A k \in 1..Len(setting.frame), c \in Columns :
           Len(setting.frame[k][c]) \in Nat
  BY <1>1, SettingsAssumption
<1>3. /\ Len(Frame) \in Nat
      /\ \A k \in 1..Len(Frame), c \in Columns : Len(Frame[k][c]) \in Nat
  BY <1>2 DEF Frame
<1>4. /\ layer \in Nat \ {0} /\ layer <= Len(Frame)
      /\ 1..layer \subseteq 1..Len(Frame)
  BY <1>1, <1>3
<1> QED
  BY <1>1, <1>3, <1>4 DEF Program

\* The item that is issued stands where the frame is laid out to have it.
LEMMA LaidItem ==
  ASSUME LaidOut, TypeOK, Sharing, Issuing, NEW ch \in {"w", "a"},
         Carries(Item, ch)
  PROVE  /\ Len(Item.parts) = 1 /\ Item.load = Len(Item.pos)
         /\ \A n \in 1..Len(Item.pos) :
              Item.pos[n] =
                (Activation(ch, Cardinality(Placed(Column, ch)) + n) - 1)
                  % setting.share[Column]
<1>1. Column \in Columns /\ Row \in Nat \ {0}
  BY IssuePosition DEF TypeOK
<1>2. setting \in Settings /\ layer \in 1..Len(setting.frame)
  BY <1>1, ProgramTypes DEF Frame, TypeOK
<1>3. /\ Row \in 1..Len(setting.frame[layer][Column])
      /\ setting.frame[layer][Column][Row] = Item
  BY <1>1 DEF Issuing, Item, Program, Frame
<1>4. NextRow(Column) = Row
  <2>1. ~ (Column < Column) /\ Row + 0 = Row
    BY <1>1
  <2> QED
    BY <2>1 DEF NextRow
<1>5. Placed(Column, ch)
        = PlacesAhead(setting.frame, Column, ch, layer, Row)
  BY <1>4 DEF Placed, Frame
<1>6. InTurn(setting, layer, Column, ch, Row)
  <2>1. setting.share # <<>>
    BY DEF Sharing
  <2>2. \A l \in 1..Len(setting.frame), c \in Columns, h \in {"w", "a"} :
          \A i \in 1..Len(setting.frame[l][c]) :
            Carries(setting.frame[l][c][i], h) => InTurn(setting, l, c, h, i)
    BY <1>2, <2>1, Zenon DEF LaidOut
  <2> QED
    BY <1>1, <1>2, <1>3, <2>2, Zenon
<1> QED
  BY <1>3, <1>5, <1>6, Zenon DEF InTurn

\* The step to the next place puts the item's positions behind it, if it has
\* any on the channel.
LEMMA PlacedNext ==
  ASSUME TypeOK, at' = at + 1, UNCHANGED <<setting, layer>>,
         NEW c \in Columns, NEW ch
  PROVE  IF c = Column /\ Row \in 1..Len(Program(c)) /\ Carries(Item, ch)
         THEN LET own == {<<layer, Row>>} \X DOMAIN Item.pos
              IN  /\ Placed(c, ch)' = Placed(c, ch) \cup own
                  /\ Placed(c, ch) \cap own = {}
         ELSE Placed(c, ch)' = Placed(c, ch)
<1> DEFINE row == NextRow(c)
<1>1. at \in Nat \ {0} /\ row \in Nat \ {0} /\ layer \in Nat \ {0}
      /\ \A k \in 1..layer : Len(Frame[k][c]) \in Nat
      /\ Row \in Nat \ {0}
  BY RowTypes, ProgramTypes, IssuePosition DEF TypeOK
<1>2. NextRow(c)' = row + (IF c = Column THEN 1 ELSE 0)
  BY <1>1, NextPlace
<1>3. Placed(c, ch)' = PlacesAhead(Frame, c, ch, layer, NextRow(c)')
  BY DEF Placed, Frame
<1>4. Placed(c, ch) = PlacesAhead(Frame, c, ch, layer, row)
  BY DEF Placed
<1> HIDE DEF row
<1>5. CASE c # Column
  <2>1. NextRow(c)' = row
    BY <1>1, <1>2, <1>5
  <2> QED
    BY <1>3, <1>4, <1>5, <2>1
<1>6. CASE c = Column
  <2>1. row = Row /\ NextRow(c)' = row + 1
    <3>1. ~ (c < c) /\ Row + 0 = Row
      BY <1>1
    <3>2. row = Row
      BY <1>6, <3>1 DEF NextRow, row
    <3> QED
      BY <1>2, <1>6, <3>2
  <2>2. Item = Frame[layer][c][row]
    BY <1>6, <2>1 DEF Item, Program
  <2>3. CASE Row \in 1..Len(Program(c)) /\ Carries(Item, ch)
    <3>1. row \in 1..Len(Frame[layer][c]) /\ Carries(Frame[layer][c][row], ch)
      BY <2>1, <2>2, <2>3 DEF Program
    <3>2. /\ PlacesAhead(Frame, c, ch, layer, row + 1) =
               PlacesAhead(Frame, c, ch, layer, row)
                 \cup ({<<layer, row>>} \X DOMAIN Frame[layer][c][row].pos)
          /\ PlacesAhead(Frame, c, ch, layer, row)
               \cap ({<<layer, row>>} \X DOMAIN Frame[layer][c][row].pos) = {}
      BY <1>1, <3>1, PlacesOfItem
    <3> QED
      BY <1>3, <1>4, <1>6, <2>1, <2>2, <2>3, <3>2
  <2>4. CASE ~ (Row \in 1..Len(Program(c)) /\ Carries(Item, ch))
    <3>1. row \in 1..Len(Frame[layer][c])
          => ~ Carries(Frame[layer][c][row], ch)
      BY <2>1, <2>2, <2>4 DEF Program
    <3>2. PlacesAhead(Frame, c, ch, layer, row + 1) =
            PlacesAhead(Frame, c, ch, layer, row)
      BY <1>1, <3>1, PlacesKept
    <3> QED
      BY <1>3, <1>4, <2>1, <2>4, <3>2
  <2> QED
    BY <2>3, <2>4
<1> QED
  BY <1>5, <1>6

-----------------------------------------------------------------------------
(* Stream sharing: the steps.                                              *)

\* What a push starts its column's channels with.
LEMMA PushGiven ==
  ASSUME TypeOK, PartInv, LaidOut, Sharing, MarksInv, Push
  PROVE  /\ \A c \in Columns, ch \in {"w", "a"} :
              Given(c, ch)' = IF c = Column /\ Carries(Item, ch)
                              THEN Given(c, ch) \o Item.pos ELSE Given(c, ch)
         /\ MarksInv'
         /\ \A c \in Columns :
              /\ Len(started[c].w) <= Len(started'[c].w)
              /\ Len(started[c].a) <= Len(started'[c].a)
         /\ Column \in Columns /\ Issuing /\ Item.pos \in Seq(Nat)
         /\ \A ch \in {"w", "a"} : Carries(Item, ch) =>
              /\ at' = at + 1 /\ Row \in 1..Len(Program(Column))
<1> DEFINE c == Column
           load == IF Task < Len(Item.parts) THEN 0 ELSE Item.load
           st == started[c]
           new == Extended(st, Item, load)
<1>1. /\ Pushing /\ Issuing /\ started' = [started EXCEPT ![c] = new]
      /\ IF Task < Len(Item.parts) THEN part' = part + 1 /\ at' = at
                                   ELSE part' = 0 /\ at' = at + 1
  BY DEF Push, Pushing
<1>2. /\ c \in Columns /\ ItemTyped(Item) /\ Row \in Nat \ {0}
      /\ Len(Program(c)) \in Nat
  BY <1>1, Issued, IssuePosition, ProgramTypes DEF TypeOK
<1>3. Task \in 1..Len(Item.parts) /\ Len(Item.parts) \in Nat
  BY <1>1, Issued, PushedTask
<1>4. Item.pos \in Seq(Nat)
  BY <1>2 DEF ItemTyped
<1>5. ASSUME Carries(Item, "w") \/ Carries(Item, "a")
      PROVE  Len(Item.parts) = 1 /\ Item.load = Len(Item.pos)
  BY <1>1, <1>5, LaidItem
<1>6. Len(Item.parts) = 1 => ~ (Task < Len(Item.parts)) /\ at' = at + 1
  BY <1>1, <1>3
<1>7. Carries(Item, "w") \/ Carries(Item, "a") => load = Len(Item.pos)
  BY <1>5, <1>6
<1>8. /\ WeightsItem(Item) => load = Item.load
      /\ ~ WeightsItem(Item) => load \in Nat
  <2>1. WeightsItem(Item) => Len(Item.parts) = 1
    BY <1>2 DEF ItemTyped
  <2>2. ~ WeightsItem(Item) => Item.load \in Nat
    BY <1>2 DEF ItemTyped
  <2> QED
    BY <1>6, <2>1, <2>2
<1>9. started \in [Columns -> Started] /\ st \in Started /\ Marks(st)
  BY <1>2 DEF TypeOK, MarksInv
<1> HIDE DEF load, st, c
<1>10. /\ Marks(new)
       /\ new.shared = IF Carries(Item, "w") THEN st.shared \o Item.pos
                       ELSE st.shared
       /\ new.direct = IF Carries(Item, "a") THEN st.direct \o Item.pos
                       ELSE st.direct
       /\ Len(st.w) <= Len(new.w) /\ Len(st.a) <= Len(new.a)
  BY <1>2, <1>7, <1>8, <1>9, ExtendedMarks
<1> HIDE DEF new
<1>11. /\ started'[c] = new /\ started[c] = st
       /\ \A d \in Columns : d # c => started'[d] = started[d]
  BY <1>1, <1>2, <1>9 DEF st
<1>12. \A d \in Columns, ch \in {"w", "a"} :
         Given(d, ch)' = IF d = c /\ Carries(Item, ch)
                         THEN Given(d, ch) \o Item.pos ELSE Given(d, ch)
  <2> SUFFICES ASSUME NEW d \in Columns, NEW ch \in {"w", "a"}
               PROVE  Given(d, ch)' = IF d = c /\ Carries(Item, ch)
                                      THEN Given(d, ch) \o Item.pos
                                      ELSE Given(d, ch)
    OBVIOUS
  <2>1. CASE ch = "w"
    <3>1. Given(d, ch)' = started'[d].shared
          /\ Given(d, ch) = started[d].shared
      BY <2>1 DEF Given
    <3> QED
      BY <1>10, <1>11, <2>1, <3>1
  <2>2. CASE ch = "a"
    <3>1. Given(d, ch)' = started'[d].direct
          /\ Given(d, ch) = started[d].direct
      BY <2>2 DEF Given
    <3> QED
      BY <1>10, <1>11, <2>2, <3>1
  <2> QED
    BY <2>1, <2>2
<1>13. MarksInv'
  BY <1>10, <1>11 DEF MarksInv
<1>14. ASSUME NEW d \in Columns
       PROVE  /\ Len(started[d].w) <= Len(started'[d].w)
              /\ Len(started[d].a) <= Len(started'[d].a)
  <2>1. CASE d = c
    BY <1>10, <1>11, <2>1
  <2>2. CASE d # c
    <3>1. started[d] \in Started
      BY <1>9
    <3>2. Len(started[d].w) \in Nat /\ Len(started[d].a) \in Nat
      BY <3>1 DEF Started
    <3> QED
      BY <1>11, <2>2, <3>2
  <2> QED
    BY <2>1, <2>2
<1>15. ASSUME NEW ch \in {"w", "a"}, Carries(Item, ch)
       PROVE  at' = at + 1 /\ Row \in 1..Len(Program(c))
  <2>1. at' = at + 1
    BY <1>5, <1>6, <1>15
  <2>2. Row <= Len(Program(c))
    BY <1>1 DEF Issuing, c
  <2> QED
    BY <1>2, <2>1, <2>2
<1> QED
  BY <1>1, <1>2, <1>4, <1>12, <1>13, <1>14, <1>15 DEF c

\* Positions behind those that a channel was given.
LEMMA GivenAppended ==
  ASSUME NEW g \in Seq(Nat), NEW pos \in Seq(Nat), NEW ch, NEW share,
         \A m \in 1..Len(g) : g[m] = (Activation(ch, m) - 1) % share,
         \A n \in 1..Len(pos) :
           pos[n] = (Activation(ch, Len(g) + n) - 1) % share
  PROVE  /\ Len(g \o pos) = Len(g) + Len(pos)
         /\ \A m \in 1..Len(g \o pos) :
              (g \o pos)[m] = (Activation(ch, m) - 1) % share
<1> DEFINE u == g \o pos  k == Len(g)  n == Len(pos)
           at_(m) == (Activation(ch, m) - 1) % share
<1>1. /\ k \in Nat /\ n \in Nat /\ Len(u) = k + n
      /\ \A m \in 1..(k + n) : u[m] = IF m <= k THEN g[m] ELSE pos[m - k]
  BY ConcatProperties
<1>2. /\ \A m \in 1..k : g[m] = at_(m)
      /\ \A m \in 1..n : pos[m] = at_(k + m)
  OBVIOUS
<1> HIDE DEF u, k, n, at_
<1>3. ASSUME NEW m \in 1..(k + n)
      PROVE  u[m] = at_(m)
  <2>1. CASE m <= k
    <3>1. m \in 1..k
      BY <1>1, <2>1
    <3> QED
      BY <1>1, <1>2, <2>1, <3>1
  <2>2. CASE ~ (m <= k)
    <3>1. m - k \in 1..n /\ k + (m - k) = m
      BY <1>1, <2>2
    <3>2. pos[m - k] = at_(m)
      BY <1>2, <3>1
    <3> QED
      BY <1>1, <2>2, <3>2
  <2> QED
    BY <2>1, <2>2
<1> QED
  BY <1>1, <1>3 DEF u, k, n, at_

\* A push gives a channel the positions that are next in the frame.
LEMMA GivenPushed ==
  ASSUME TypeOK, PartInv, LaidOut, Sharing, MarksInv, GivenInv, Push
  PROVE  GivenInv'
<1> SUFFICES ASSUME NEW c \in Columns, NEW ch \in {"w", "a"}
             PROVE  /\ IsFiniteSet(Placed(c, ch)')
                    /\ Cardinality(Placed(c, ch)') = Len(Given(c, ch)')
                    /\ \A m \in 1..Len(Given(c, ch)') :
                         Given(c, ch)'[m] =
                           (Activation(ch, m) - 1) % setting'.share[c]
  BY DEF GivenInv, Activation
<1>1. UNCHANGED <<setting, layer>> /\ (at' = at \/ at' = at + 1)
  BY DEF Push
<1>2. /\ Given(c, ch)' = IF c = Column /\ Carries(Item, ch)
                         THEN Given(c, ch) \o Item.pos ELSE Given(c, ch)
      /\ Issuing /\ Item.pos \in Seq(Nat)
      /\ Carries(Item, ch) =>
           /\ at' = at + 1 /\ Row \in 1..Len(Program(Column))
  BY PushGiven
<1>3. /\ IsFiniteSet(Placed(c, ch))
      /\ Cardinality(Placed(c, ch)) = Len(Given(c, ch))
      /\ \A m \in 1..Len(Given(c, ch)) :
           Given(c, ch)[m] = (Activation(ch, m) - 1) % setting.share[c]
  BY DEF GivenInv
<1>4. Given(c, ch) \in Seq(Nat)
  <2>1. started[c] \in Started
    BY DEF TypeOK
  <2> QED
    BY <2>1 DEF Given, Started
<1>5. CASE c = Column /\ Carries(Item, ch)
  <2> DEFINE own == {<<layer, Row>>} \X DOMAIN Item.pos
             old == Placed(c, ch)  g == Given(c, ch)  share == setting.share[c]
  <2>1. Placed(c, ch)' = old \cup own /\ old \cap own = {}
    BY <1>1, <1>2, <1>5, PlacedNext
  <2>2. IsFiniteSet(own) /\ Cardinality(own) = Len(Item.pos)
    <3> DEFINE one == {<<layer, Row>>}  n == Len(Item.pos)  all == 1..n
    <3>1. IsFiniteSet(one) /\ Cardinality(one) = 1
      BY FS_Singleton
    <3>2. n \in Nat /\ DOMAIN Item.pos = 1..n
      BY <1>2
    <3>3. IsFiniteSet(all) /\ Cardinality(all) = n
      BY <3>2, FS_Interval
    <3>4. own = one \X all /\ Len(Item.pos) = n
      BY <3>2
    <3> HIDE DEF one, n, all, own, old, g, share
    <3>5. IsFiniteSet(one \X all) /\ Cardinality(one \X all) = 1 * n
      BY <3>1, <3>3, FS_Product
    <3>6. 1 * n = n
      BY <3>2
    <3> QED
      BY <3>4, <3>5, <3>6
  <2>3. \A n \in 1..Len(Item.pos) :
          Item.pos[n] = (Activation(ch, Len(g) + n) - 1) % share
    <3>1. \A n \in 1..Len(Item.pos) :
            Item.pos[n] =
              (Activation(ch, Cardinality(Placed(Column, ch)) + n) - 1)
                % setting.share[Column]
      BY <1>2, <1>5, LaidItem
    <3> QED
      BY <1>3, <1>5, <3>1
  <2>4. Given(c, ch)' = g \o Item.pos
    BY <1>2, <1>5
  <2>5. IsFiniteSet(old) /\ Cardinality(old) = Len(g)
    BY <1>3
  <2>6. /\ IsFiniteSet(old \cup own)
        /\ Cardinality(old \cup own) = Len(g) + Len(Item.pos)
    <3> HIDE DEF old, own, g
    <3>1. Cardinality(old \cup own) =
            Cardinality(old) + Cardinality(own) - Cardinality({})
      BY <2>1, <2>2, <2>5, FS_Union
    <3>2. IsFiniteSet(old \cup own)
      BY <2>2, <2>5, FS_Union
    <3>3. Len(g) \in Nat /\ Len(Item.pos) \in Nat
      BY <1>2, <1>4 DEF g
    <3> QED
      BY <2>2, <2>5, <3>1, <3>2, <3>3, FS_EmptySet
  <2>7. /\ Len(g \o Item.pos) = Len(g) + Len(Item.pos)
        /\ \A m \in 1..Len(g \o Item.pos) :
             (g \o Item.pos)[m] = (Activation(ch, m) - 1) % share
    <3>1. \A m \in 1..Len(g) : g[m] = (Activation(ch, m) - 1) % share
      BY <1>3
    <3>2. g \in Seq(Nat) /\ Item.pos \in Seq(Nat)
      BY <1>2, <1>4
    <3> HIDE DEF g, share
    <3> QED
      BY <2>3, <3>1, <3>2, GivenAppended
  <2> HIDE DEF old, own, g
  <2> QED
    BY <1>1, <2>1, <2>4, <2>6, <2>7 DEF share
<1>6. CASE ~ (c = Column /\ Carries(Item, ch))
  <2>1. Placed(c, ch)' = Placed(c, ch)
    <3>1. CASE at' = at
      BY <1>1, <3>1 DEF Placed, NextRow, Row, Column, Frame
    <3>2. CASE at' = at + 1
      BY <1>1, <1>6, <3>2, PlacedNext
    <3> QED
      BY <1>1, <3>1, <3>2
  <2>2. Given(c, ch)' = Given(c, ch)
    BY <1>2, <1>6
  <2> QED
    BY <1>1, <1>3, <2>1, <2>2
<1> QED
  BY <1>5, <1>6

\* The lengths of what a column's channels were given.
LEMMA StartedLengths ==
  ASSUME NEW st \in Started
  PROVE  /\ Len(st.w) \in Nat /\ Len(st.a) \in Nat
         /\ Len(st.shared) \in Nat /\ Len(st.direct) \in Nat
<1>1. /\ st.w \in Seq(Nat) /\ st.a \in Seq(Nat)
      /\ st.shared \in Seq(Nat) /\ st.direct \in Seq(Nat)
  BY DEF Started
<1> QED
  BY <1>1

\* Nothing is given to a channel, and the next items are the same.
LEMMA OrderKept ==
  ASSUME OrderInv, UNCHANGED <<setting, layer, at, started, device>>,
         stage' = "barrier" => stage = "barrier"
  PROVE  OrderInv'
<1>1. Sharing' = Sharing
  BY DEF Sharing
<1>2. SUFFICES ASSUME Sharing
               PROVE  GivenInv' /\ MarksInv' /\ ConsumedInv' /\ BehindInv'
  BY <1>1 DEF OrderInv
<1>3. GivenInv /\ MarksInv /\ ConsumedInv /\ BehindInv
  BY <1>2 DEF OrderInv
<1>4. GivenInv'
  BY <1>3 DEF GivenInv, Placed, Given, NextRow, Row, Column, Frame
<1>5. MarksInv'
  BY <1>3 DEF MarksInv
<1>6. ConsumedInv'
  BY <1>3 DEF ConsumedInv, device, Shared, Direct, Sharing
<1>7. BehindInv'
  BY <1>3 DEF BehindInv, ItemsLeft, Longest, Program, Frame
<1> QED
  BY <1>4, <1>5, <1>6, <1>7

\* A push: the channels were given more, and the barrier is not reached.
LEMMA OrderPushed ==
  ASSUME LaidOut, IInv, OrderInv, Push
  PROVE  OrderInv'
<1>1. /\ UNCHANGED <<setting, stage, accepted, computed>>
      /\ stage = "items" /\ TypeOK /\ PartInv
  BY DEF Push, Pushing, Issuing, IInv, device
<1>2. SUFFICES ASSUME Sharing
               PROVE  GivenInv' /\ MarksInv' /\ ConsumedInv' /\ BehindInv'
  BY <1>1 DEF OrderInv, Sharing
<1>3. GivenInv /\ MarksInv /\ ConsumedInv
  BY <1>2 DEF OrderInv
<1>4. GivenInv'
  BY <1>1, <1>2, <1>3, GivenPushed
<1>5. BehindInv'
  BY <1>1 DEF BehindInv
<1>6. /\ \A c \in Columns, ch \in {"w", "a"} :
           Given(c, ch)' = IF c = Column /\ Carries(Item, ch)
                           THEN Given(c, ch) \o Item.pos ELSE Given(c, ch)
      /\ MarksInv' /\ Item.pos \in Seq(Nat)
      /\ \A c \in Columns : /\ Len(started[c].w) <= Len(started'[c].w)
                            /\ Len(started[c].a) <= Len(started'[c].a)
  BY <1>1, <1>2, <1>3, PushGiven
<1>7. TypeOK'
  BY PushStep DEF IInv
<1>8. ASSUME NEW c \in Columns, NEW ch \in {"w", "a"}
      PROVE  Len(Given(c, ch)) <= Len(Given(c, ch)')
  <2>1. Given(c, ch) \in Seq(Nat)
    <3>1. started[c] \in Started
      BY <1>1 DEF TypeOK
    <3> QED
      BY <3>1 DEF Given, Started
  <2> DEFINE g == Given(c, ch)
  <2>2. Len(g) \in Nat /\ Len(Item.pos) \in Nat
    BY <1>6, <2>1
  <2>3. Len(g \o Item.pos) = Len(g) + Len(Item.pos)
    BY <1>6, <2>1, ConcatProperties
  <2>4. Given(c, ch)' = g \o Item.pos \/ Given(c, ch)' = g
    BY <1>6
  <2> HIDE DEF g
  <2>5. Len(g) <= Len(g \o Item.pos) /\ Len(g) <= Len(g)
    BY <2>2, <2>3
  <2> QED
    BY <2>4, <2>5 DEF g
<1>9. ASSUME NEW c \in Columns
      PROVE  /\ accepted'[c]["w"] <= Len(started'[c].w)
             /\ accepted'[c]["a"] <= Len(started'[c].a)
             /\ Shared(computed[c])' <= Len(started'[c].shared)
             /\ Direct(computed[c])' <= Len(started'[c].direct)
  <2>1. /\ Len(started[c].shared) <= Len(started'[c].shared)
        /\ Len(started[c].direct) <= Len(started'[c].direct)
    <3>1. Len(Given(c, "w")) <= Len(Given(c, "w")')
          /\ Len(Given(c, "a")) <= Len(Given(c, "a")')
      BY <1>8
    <3> QED
      BY <3>1 DEF Given
  <2>2. /\ Len(started[c].w) \in Nat /\ Len(started[c].a) \in Nat
        /\ Len(started[c].shared) \in Nat /\ Len(started[c].direct) \in Nat
    <3>1. started[c] \in Started
      BY <1>1 DEF TypeOK
    <3> QED
      BY <3>1, StartedLengths
  <2>3. /\ Len(started'[c].w) \in Nat /\ Len(started'[c].a) \in Nat
        /\ Len(started'[c].shared) \in Nat /\ Len(started'[c].direct) \in Nat
    <3>1. started'[c] \in Started
      BY <1>7 DEF TypeOK
    <3> QED
      BY <3>1, StartedLengths
  <2>4. /\ accepted[c]["w"] \in Nat /\ accepted[c]["a"] \in Nat
    <3>1. accepted \in [Columns -> [Channels -> Nat]]
      BY <1>1 DEF TypeOK, PerChannel
    <3>2. accepted[c] \in [Channels -> Nat]
      BY <3>1
    <3> QED
      BY <3>2
  <2>5. Shared(computed[c]) \in Int /\ Direct(computed[c]) \in Int
    <3>1. computed[c] \in Nat
      BY <1>1 DEF TypeOK
    <3>2. computed[c] \div Period \in Nat
      BY <3>1, Quotient
    <3> QED
      BY <3>1, <3>2 DEF Shared, Direct
  <2>6. /\ accepted[c]["w"] <= Len(started[c].w)
        /\ accepted[c]["a"] <= Len(started[c].a)
        /\ Shared(computed[c]) <= Len(started[c].shared)
        /\ Direct(computed[c]) <= Len(started[c].direct)
    BY <1>3 DEF ConsumedInv
  <2>7. /\ accepted' = accepted
        /\ Shared(computed[c])' = Shared(computed[c])
        /\ Direct(computed[c])' = Direct(computed[c])
    BY <1>1 DEF Shared, Direct, Sharing
  <2>8. /\ Len(started[c].w) <= Len(started'[c].w)
        /\ Len(started[c].a) <= Len(started'[c].a)
    BY <1>6
  <2> DEFINE w == accepted[c]["w"]  a == accepted[c]["a"]
             s == Shared(computed[c])  d == Direct(computed[c])
             old == started[c]  new == started'[c]
             w1 == Len(old.w)  a1 == Len(old.a)
             s1 == Len(old.shared)  d1 == Len(old.direct)
             w2 == Len(new.w)  a2 == Len(new.a)
             s2 == Len(new.shared)  d2 == Len(new.direct)
  <2>9. /\ w \in Int /\ a \in Int /\ s \in Int /\ d \in Int
        /\ w1 \in Int /\ a1 \in Int /\ s1 \in Int /\ d1 \in Int
        /\ w2 \in Int /\ a2 \in Int /\ s2 \in Int /\ d2 \in Int
    BY <2>2, <2>3, <2>4, <2>5
  <2>10. /\ w <= w1 /\ a <= a1 /\ s <= s1 /\ d <= d1
         /\ w1 <= w2 /\ a1 <= a2 /\ s1 <= s2 /\ d1 <= d2
    BY <2>1, <2>6, <2>8
  <2> HIDE DEF w, a, s, d, w1, a1, s1, d1, w2, a2, s2, d2
  <2>11. w <= w2 /\ a <= a2 /\ s <= s2 /\ d <= d2
    BY <2>9, <2>10
  <2> QED
    BY <2>7, <2>11 DEF w, a, s, d, w2, a2, s2, d2
<1>10. ConsumedInv'
  BY <1>9 DEF ConsumedInv
<1> QED
  BY <1>4, <1>5, <1>6, <1>10

\* An activation is consumed when it has arrived: it was given before.
LEMMA ComputeBounds ==
  ASSUME TypeOK, Sharing, MarksInv, ConsumedInv, NEW c \in Columns, Compute(c)
  PROVE  /\ Shared(computed[c] + 1) <= Len(started[c].shared)
         /\ Direct(computed[c] + 1) <= Len(started[c].direct)
<1> DEFINE st == started[c]  n == accepted[c]["w"]  m == accepted[c]["a"]
           s == Shared(computed[c] + 1)  d == Direct(computed[c] + 1)
<1>1. /\ d <= Arrived(c) /\ s <= Buffered(c)
  BY DEF Compute
<1>2. /\ Cardinality(ZeroUnits(st.w, Len(st.w))) = Len(st.shared)
      /\ \A k \in 1..Len(st.a) : st.a[k] <= Len(st.direct)
      /\ n <= Len(st.w) /\ m <= Len(st.a)
  BY DEF MarksInv, Marks, ConsumedInv
<1>3. /\ n \in Nat /\ m \in Nat
  <2>1. accepted \in [Columns -> [Channels -> Nat]]
    BY DEF TypeOK, PerChannel
  <2>2. accepted[c] \in [Channels -> Nat]
    BY <2>1
  <2> QED
    BY <2>2
<1>4. /\ Len(st.w) \in Nat /\ Len(st.a) \in Nat
      /\ Len(st.shared) \in Nat /\ Len(st.direct) \in Nat
      /\ st.a \in Seq(Nat)
  <2>1. st \in Started
    BY DEF TypeOK
  <2>2. st.a \in Seq(Nat)
    BY <2>1 DEF Started
  <2> HIDE DEF st
  <2> QED
    BY <2>1, <2>2, StartedLengths
<1>5. s \in Int /\ d \in Int
  <2>1. computed[c] + 1 \in Nat
    BY DEF TypeOK
  <2>2. (computed[c] + 1) \div Period \in Nat
    BY <2>1, Quotient
  <2> QED
    BY <2>1, <2>2 DEF Shared, Direct
<1>6. Buffered(c) = Cardinality(ZeroUnits(st.w, n))
  BY DEF Buffered, Units, ZeroUnits
<1>7. Arrived(c) = IF m = 0 THEN 0 ELSE st.a[m]
  BY DEF Arrived, UpTo
<1> HIDE DEF st, n, m, s, d
<1>8. s <= Len(st.shared)
  <2>1. ZeroUnits(st.w, n) \subseteq ZeroUnits(st.w, Len(st.w))
    BY <1>2, <1>3, <1>4 DEF ZeroUnits
  <2>2. /\ IsFiniteSet(ZeroUnits(st.w, Len(st.w)))
        /\ Cardinality(ZeroUnits(st.w, Len(st.w))) \in Nat
        /\ Cardinality(ZeroUnits(st.w, n)) \in Nat
    BY <1>3, <1>4, ZeroTypes
  <2>3. Cardinality(ZeroUnits(st.w, n)) <=
          Cardinality(ZeroUnits(st.w, Len(st.w)))
    BY <2>1, <2>2, FS_Subset
  <2> HIDE DEF ZeroUnits
  <2> QED
    BY <1>1, <1>2, <1>4, <1>5, <1>6, <2>2, <2>3
<1>9. d <= Len(st.direct)
  <2>1. CASE m = 0
    BY <1>1, <1>4, <1>5, <1>7, <2>1
  <2>2. CASE m # 0
    <3>1. m \in 1..Len(st.a)
      BY <1>2, <1>3, <1>4, <2>2
    <3>2. st.a[m] \in Nat /\ st.a[m] <= Len(st.direct)
      BY <1>2, <1>4, <3>1
    <3>3. d <= st.a[m]
      BY <1>1, <1>7, <2>2
    <3> QED
      BY <1>4, <1>5, <3>2, <3>3
  <2> QED
    BY <2>1, <2>2
<1> QED
  BY <1>8, <1>9 DEF st, s, d

\* A channel moves a unit that it was given.
LEMMA MoveBounds ==
  ASSUME TypeOK, ConsumedInv, NEW c \in Columns, NEW ch \in Channels,
         Move(c, ch), LastUnit(started[c], ch) \in Nat,
         accepted[c][ch] < LastUnit(started[c], ch)
  PROVE  \A d \in Columns : /\ accepted'[d]["w"] <= Len(started[d].w)
                            /\ accepted'[d]["a"] <= Len(started[d].a)
<1>1. accepted \in PerChannel /\ accepted' = [accepted EXCEPT ![c][ch] = @ + 1]
  BY DEF TypeOK, Move
<1>2. ASSUME NEW d \in Columns, NEW k \in Channels
      PROVE  /\ accepted[d][k] \in Nat
             /\ accepted'[d][k] = IF d = c /\ k = ch THEN accepted[d][k] + 1
                                  ELSE accepted[d][k]
  <2> HIDE DEF Columns, Channels
  <2> QED
    BY <1>1, <1>2, CountUp
<1>3. ASSUME NEW d \in Columns, NEW k \in {"w", "a"}
      PROVE  accepted'[d][k] <= LastUnit(started[d], k)
  <2>1. k \in Channels
    OBVIOUS
  <2>2. accepted[d][k] <= LastUnit(started[d], k)
    BY DEF ConsumedInv, LastUnit
  <2>3. CASE d = c /\ k = ch
    <3>1. accepted'[c][ch] = accepted[c][ch] + 1 /\ accepted[c][ch] \in Nat
      BY <1>2
    <3>2. accepted[c][ch] + 1 <= LastUnit(started[c], ch)
      BY <3>1
    <3> QED
      BY <2>3, <3>1, <3>2
  <2>4. CASE ~ (d = c /\ k = ch)
    <3>1. accepted'[d][k] = accepted[d][k]
      BY <1>2, <2>1, <2>4
    <3> QED
      BY <2>2, <3>1
  <2> QED
    BY <2>3, <2>4
<1> QED
  BY <1>3 DEF LastUnit

\* The device moves no unit and consumes no activation it was not given.
LEMMA OrderDevice ==
  ASSUME IInv, OrderInv, NEW c \in Columns, Device(c)
  PROVE  OrderInv'
<1>1. UNCHANGED <<setting, layer, at, stage, started>>
  BY DEF Device, AcceptWeight, AcceptFill, DrainOutput, Compute, Move, emitter
<1>2. SUFFICES ASSUME Sharing
               PROVE  GivenInv' /\ MarksInv' /\ ConsumedInv' /\ BehindInv'
  BY <1>1 DEF OrderInv, Sharing
<1>3. GivenInv /\ MarksInv /\ ConsumedInv /\ BehindInv
  BY <1>2 DEF OrderInv
<1>4. GivenInv'
  BY <1>1, <1>3 DEF GivenInv, Placed, Given, NextRow, Row, Column, Frame
<1>5. MarksInv'
  BY <1>1, <1>3 DEF MarksInv
<1>6. BehindInv'
  BY <1>1, <1>3 DEF BehindInv, ItemsLeft, Longest, Program, Frame
<1>7. TypeOK /\ started[c] \in Started
  BY DEF IInv, TypeOK
<1>8. ConsumedInv' <=>
        \A d \in Columns : /\ accepted'[d]["w"] <= Len(started[d].w)
                           /\ accepted'[d]["a"] <= Len(started[d].a)
                           /\ Shared(computed'[d]) <= Len(started[d].shared)
                           /\ Direct(computed'[d]) <= Len(started[d].direct)
  BY <1>1 DEF ConsumedInv, Shared, Direct, Sharing
<1>9. CASE \E ch \in Channels :
             /\ Move(c, ch) /\ LastUnit(started[c], ch) \in Nat
             /\ accepted[c][ch] < LastUnit(started[c], ch)
  <2>1. computed' = computed
    BY <1>9 DEF Move
  <2>2. \A d \in Columns : /\ accepted'[d]["w"] <= Len(started[d].w)
                           /\ accepted'[d]["a"] <= Len(started[d].a)
    <3> HIDE DEF Columns, Channels
    <3> QED
      BY <1>3, <1>7, <1>9, MoveBounds
  <2> QED
    BY <1>3, <1>4, <1>5, <1>6, <1>8, <2>1, <2>2 DEF ConsumedInv
<1>10. CASE Compute(c)
  <2>1. accepted' = accepted /\ computed' = [computed EXCEPT ![c] = @ + 1]
    BY <1>10 DEF Compute
  <2>2. /\ computed'[c] = computed[c] + 1
        /\ \A d \in Columns : d # c => computed'[d] = computed[d]
    BY <1>7, <2>1 DEF TypeOK
  <2>3. /\ Shared(computed[c] + 1) <= Len(started[c].shared)
        /\ Direct(computed[c] + 1) <= Len(started[c].direct)
    BY <1>2, <1>3, <1>7, <1>10, ComputeBounds
  <2> QED
    BY <1>3, <1>4, <1>5, <1>6, <1>8, <2>1, <2>2, <2>3 DEF ConsumedInv
<1>11. /\ LastUnit(started[c], "w") = Len(started[c].w)
       /\ LastUnit(started[c], "a") = Len(started[c].a)
       /\ LastUnit(started[c], "o") = started[c].o
       /\ Len(started[c].w) \in Nat /\ Len(started[c].a) \in Nat
       /\ started[c].o \in Nat
  BY <1>7, StartedLengths DEF LastUnit, Started
<1>12. CASE AcceptWeight(c)
  BY <1>9, <1>11, <1>12 DEF AcceptWeight
<1>13. CASE AcceptFill(c)
  BY <1>9, <1>11, <1>13 DEF AcceptFill
<1>14. CASE DrainOutput(c)
  BY <1>9, <1>11, <1>14 DEF DrainOutput
<1> QED
  BY <1>10, <1>12, <1>13, <1>14 DEF Device

\* The next layer follows on what the items of this one have given.
LEMMA GivenNextLayer ==
  ASSUME TypeOK, GivenInv, ~ ItemsLeft, NextLayer,
         UNCHANGED <<setting, started>>
  PROVE  GivenInv'
<1>1. CASE LastLayer
  <2>1. UNCHANGED <<layer, at>>
    BY <1>1 DEF NextLayer
  <2> QED
    BY <2>1 DEF GivenInv, Placed, Given, NextRow, Row, Column, Frame
<1>2. CASE ~ LastLayer
  <2>1. layer' = layer + 1 /\ at' = 1
    BY <1>2 DEF NextLayer
  <2>2. /\ layer \in Nat \ {0} /\ layer + 1 \in 1..Len(Frame)
        /\ \A k \in 1..Len(Frame), c \in Columns : Len(Frame[k][c]) \in Nat
        /\ \A c \in Columns : Len(Program(c)) \in Nat
    BY <1>2, ProgramTypes DEF LastLayer
  <2>3. ASSUME NEW c \in Columns, NEW ch
        PROVE  Placed(c, ch)' = Placed(c, ch)
    <3>1. NextRow(c)' = 1
      <4>1. 0 = (Cols * 0) + 0 /\ 0 \in 0..(Cols - 1)
        OBVIOUS
      <4>2. 0 \div Cols = 0 /\ 0 % Cols = 0
        BY <4>1, QuotientIs
      <4>3. at' - 1 = 0
        BY <2>1
      <4>4. Column' = (0 % Cols) + 1 /\ Row' = (0 \div Cols) + 1
        BY <4>3 DEF Column, Row
      <4>5. Column' = 1 /\ Row' = 1
        BY <4>2, <4>4
      <4> QED
        BY <4>5 DEF NextRow
    <3>2. Placed(c, ch)' = PlacesAhead(Frame, c, ch, layer + 1, 1)
      BY <2>1, <3>1 DEF Placed, Frame
    <3>3. at \in Nat \ {0} /\ NextRow(c) \in Nat \ {0}
      BY RowTypes DEF TypeOK
    <3>4. Len(Program(c)) < NextRow(c)
      BY <2>2, <3>3, NothingLeft
    <3>5. \A j \in 1..Len(Frame[layer][c]) : j < NextRow(c)
      BY <2>2, <3>3, <3>4 DEF Program
    <3>6. \A k \in 1..(layer + 1) : Len(Frame[k][c]) \in Nat
      <4>1. Len(Frame) \in Nat
        BY ProgramTypes
      <4>2. 1..(layer + 1) \subseteq 1..Len(Frame)
        BY <2>2, <4>1
      <4> QED
        BY <2>2, <4>2
    <3>7. PlacesAhead(Frame, c, ch, layer + 1, 1) =
            PlacesAhead(Frame, c, ch, layer, NextRow(c))
      BY <2>2, <3>3, <3>5, <3>6, PlacesNextLayer
    <3> QED
      BY <3>2, <3>7 DEF Placed
  <2>4. \A c \in Columns, ch \in {"w", "a"} : Given(c, ch)' = Given(c, ch)
    BY DEF Given
  <2> QED
    BY <2>3, <2>4 DEF GivenInv, Activation
<1> QED
  BY <1>1, <1>2

\* The emitter has the layer's items behind it, or passes a missing one.
LEMMA OrderAdvanced ==
  ASSUME IInv, OrderInv, Skip \/ EndItems \/ LeaveBarrier
  PROVE  OrderInv'
<1>1. TypeOK /\ UNCHANGED <<setting, started, accepted, computed>>
  BY DEF Skip, EndItems, LeaveBarrier, IInv, device
<1>2. SUFFICES ASSUME Sharing
               PROVE  GivenInv' /\ MarksInv' /\ ConsumedInv' /\ BehindInv'
  BY <1>1 DEF OrderInv, Sharing
<1>3. GivenInv /\ MarksInv /\ ConsumedInv /\ BehindInv
  BY <1>2 DEF OrderInv
<1>4. MarksInv'
  BY <1>1, <1>3 DEF MarksInv
<1>5. ConsumedInv'
  BY <1>1, <1>3 DEF ConsumedInv, Shared, Direct, Sharing
<1>6. CASE Skip
  <2>1. /\ at' = at + 1 /\ UNCHANGED <<setting, layer>> /\ stage' = "items"
        /\ Row > Len(Program(Column))
    BY <1>6 DEF Skip
  <2>2. ASSUME NEW c \in Columns, NEW ch
        PROVE  Placed(c, ch)' = Placed(c, ch)
    <3>1. ~ (c = Column /\ Row \in 1..Len(Program(c)))
      <4>1. Row \in Nat /\ Len(Program(c)) \in Nat
        BY <1>1, IssuePosition, ProgramTypes DEF TypeOK
      <4> QED
        BY <2>1, <4>1
    <3> QED
      BY <1>1, <2>1, <3>1, PlacedNext
  <2>3. \A c \in Columns, ch \in {"w", "a"} : Given(c, ch)' = Given(c, ch)
    BY <1>1 DEF Given
  <2>4. GivenInv'
    BY <1>1, <1>3, <2>2, <2>3 DEF GivenInv, Activation
  <2> QED
    BY <1>4, <1>5, <2>1, <2>4 DEF BehindInv
<1>7. CASE NextLayer /\ ~ ItemsLeft
  <2>1. GivenInv'
    BY <1>1, <1>3, <1>7, GivenNextLayer
  <2>2. stage' # "barrier"
    BY <1>7 DEF NextLayer
  <2> QED
    BY <1>4, <1>5, <2>1, <2>2 DEF BehindInv
<1>8. CASE EndItems /\ UNCHANGED <<layer, at>>
  <2>1. GivenInv'
    BY <1>1, <1>3, <1>8
    DEF GivenInv, Placed, Given, NextRow, Row, Column, Frame
  <2>2. BehindInv'
    BY <1>1, <1>8
    DEF BehindInv, EndItems, ItemsLeft, Longest, Program, Frame
  <2> QED
    BY <1>4, <1>5, <2>1, <2>2
<1>9. CASE EndItems
  BY <1>7, <1>8, <1>9 DEF EndItems
<1>10. CASE LeaveBarrier
  BY <1>3, <1>7, <1>10 DEF LeaveBarrier, BehindInv
<1> QED
  BY <1>6, <1>9, <1>10

\* Nothing was given before the first item.
LEMMA InitOrder == Init => OrderInv
<1> SUFFICES ASSUME Init, Sharing
             PROVE  GivenInv /\ MarksInv /\ ConsumedInv /\ BehindInv
  BY DEF OrderInv
<1>1. \A c \in Columns :
        /\ started[c].w = <<>> /\ started[c].a = <<>>
        /\ started[c].direct = <<>> /\ started[c].shared = <<>>
        /\ accepted[c]["w"] = 0 /\ accepted[c]["a"] = 0 /\ computed[c] = 0
  BY DEF Init, Zero
<1>2. layer = 1 /\ at = 1 /\ stage = "items" /\ TypeOK
  BY InitIInv DEF Init, IInv
<1>3. ASSUME NEW c \in Columns, NEW ch \in {"w", "a"}
      PROVE  Placed(c, ch) = {} /\ Given(c, ch) = <<>>
  <2>1. NextRow(c) = 1
    BY <1>2, FirstPlace
  <2>2. Len(Frame[1][c]) \in Nat
    BY <1>2, ProgramTypes DEF Program
  <2>3. PlacesAhead(Frame, c, ch, 1, 1) = {}
    BY <2>2, PlacesFirst
  <2> QED
    BY <1>1, <1>2, <2>1, <2>3 DEF Placed, Given
<1>4. Cardinality({}) = 0 /\ IsFiniteSet({})
  BY FS_EmptySet
<1>5. GivenInv
  <2>1. Len(<<>>) = 0
    OBVIOUS
  <2>2. ASSUME NEW c \in Columns, NEW ch \in {"w", "a"}
        PROVE  /\ IsFiniteSet(Placed(c, ch))
               /\ Cardinality(Placed(c, ch)) = Len(Given(c, ch))
               /\ Len(Given(c, ch)) = 0
    BY <1>3, <1>4, <2>1
  <2> QED
    BY <2>2 DEF GivenInv
<1>6. MarksInv
  <2> SUFFICES ASSUME NEW c \in Columns
               PROVE  Marks(started[c])
    BY DEF MarksInv
  <2>1. ZeroUnits(<<>>, 0) = {} /\ Len(<<>>) = 0
    BY DEF ZeroUnits
  <2>2. /\ Len(started[c].w) = 0 /\ Len(started[c].a) = 0
        /\ Len(started[c].shared) = 0 /\ Len(started[c].direct) = 0
    BY <1>1, <2>1
  <2>3. ZeroUnits(started[c].w, Len(started[c].w)) = {}
    BY <2>2 DEF ZeroUnits
  <2>4. UpTo(started[c].a, Len(started[c].a)) = 0
    BY <2>2 DEF UpTo
  <2>5. \A n \in 1..Len(started[c].a) : started[c].a[n] <= 0
    BY <2>2
  <2>6. Cardinality(ZeroUnits(started[c].w, Len(started[c].w))) = 0
    BY <1>4, <2>3
  <2> HIDE DEF ZeroUnits, UpTo
  <2> QED
    BY <2>2, <2>4, <2>5, <2>6 DEF Marks
<1>7. ConsumedInv
  <2>1. 0 \div Period = 0
    <3>1. 0 = (Period * 0) + 0 /\ 0 \in 0..(Period - 1)
      OBVIOUS
    <3> QED
      BY <3>1, QuotientIs
  <2>2. Shared(0) = 0 /\ Direct(0) = 0
    BY <2>1 DEF Shared, Direct
  <2> QED
    BY <1>1, <2>2 DEF ConsumedInv
<1> QED
  BY <1>2, <1>5, <1>6, <1>7 DEF BehindInv

\* One lemma a kind of step.
LEMMA StepOrder == LaidOut /\ IInv /\ OrderInv /\ [Next]_vars => OrderInv'
<1> SUFFICES ASSUME LaidOut, IInv, OrderInv, [Next]_vars
             PROVE  OrderInv'
  OBVIOUS
<1>1. ASSUME NEW c \in Columns, Device(c)
      PROVE  OrderInv'
  BY <1>1, OrderDevice
<1>2. CASE Push
  BY <1>2, OrderPushed
<1>3. CASE Skip \/ EndItems \/ LeaveBarrier
  BY <1>3, OrderAdvanced
<1>4. CASE Serve \/ Await \/ Raise \/ AwaitBarrier
  <2>1. /\ UNCHANGED <<setting, layer, at, started, device>>
        /\ stage' = stage \/ stage' = "failed"
    BY <1>4 DEF Serve, Await, Raise, AwaitBarrier
  <2> QED
    BY <2>1, OrderKept
<1>5. CASE UNCHANGED vars
  BY <1>5, OrderKept DEF vars, emitter
<1> QED
  BY <1>1, <1>2, <1>3, <1>4, <1>5 DEF Next, Emit

\* What the cores have consumed was given in order, and counted off in order.
LEMMA OrderedPositions == TypeOK /\ OrderInv => CoresInOrder
<1> SUFFICES ASSUME TypeOK, OrderInv, Sharing, NEW c \in Columns,
                    computed[c] > 0
             PROVE  Position(c, computed[c]) =
                      (computed[c] - 1) % setting.share[c]
  BY DEF CoresInOrder
<1> DEFINE k == computed[c]
<1>1. k \in Nat \ {0}
  BY DEF TypeOK
<1>2. /\ GivenInv
      /\ Shared(k) <= Len(started[c].shared)
      /\ Direct(k) <= Len(started[c].direct)
  BY DEF OrderInv, ConsumedInv
<1>3. Len(started[c].shared) \in Nat /\ Len(started[c].direct) \in Nat
  <2>1. started[c] \in Started
    BY DEF TypeOK
  <2> QED
    BY <2>1, StartedLengths
<1> HIDE DEF k
<1>4. /\ Shared(k) \in Nat /\ Direct(k) \in Nat
      /\ Shared(k) > Shared(k - 1)
         => Shared(k) > 0 /\ Activation("w", Shared(k)) = k
      /\ ~ (Shared(k) > Shared(k - 1))
         => Direct(k) > 0 /\ Activation("a", Direct(k)) = k
  BY <1>1, ActivationIs
<1>5. /\ \A m \in 1..Len(started[c].shared) :
           started[c].shared[m] = (Activation("w", m) - 1) % setting.share[c]
      /\ \A m \in 1..Len(started[c].direct) :
           started[c].direct[m] = (Activation("a", m) - 1) % setting.share[c]
  <2>1. Given(c, "w") = started[c].shared /\ Given(c, "a") = started[c].direct
    BY DEF Given
  <2>2. \A ch \in {"w", "a"} : \A m \in 1..Len(Given(c, ch)) :
          Given(c, ch)[m] = (Activation(ch, m) - 1) % setting.share[c]
    BY <1>2 DEF GivenInv
  <2> QED
    BY <2>1, <2>2
<1>6. CASE Shared(k) > Shared(k - 1)
  <2>1. Shared(k) \in 1..Len(started[c].shared)
    BY <1>2, <1>3, <1>4, <1>6
  <2>2. started[c].shared[Shared(k)] = (k - 1) % setting.share[c]
    BY <1>4, <1>5, <1>6, <2>1
  <2> QED
    BY <1>6, <2>2 DEF Position, k
<1>7. CASE ~ (Shared(k) > Shared(k - 1))
  <2>1. Direct(k) \in 1..Len(started[c].direct)
    BY <1>2, <1>3, <1>4, <1>7
  <2>2. started[c].direct[Direct(k)] = (k - 1) % setting.share[c]
    BY <1>4, <1>5, <1>7, <2>1
  <2> QED
    BY <1>7, <2>2 DEF Position, k
<1> QED
  BY <1>6, <1>7

-----------------------------------------------------------------------------
(* Closed token groups: the parts that have been pushed.                   *)

\* A column's program, and its items.
LEMMA ProgramItems ==
  ASSUME TypeOK, NEW c \in Columns
  PROVE  /\ Len(Program(c)) \in Nat /\ DOMAIN Program(c) = 1..Len(Program(c))
         /\ \A i \in DOMAIN Program(c) :
              /\ ItemTyped(Program(c)[i]) /\ Program(c)[i].gives \in Nat
              /\ Program(c)[i].parts \in Seq(SUBSET Cells)
<1>1. setting \in Settings /\ layer \in 1..Len(Frame)
  BY DEF TypeOK
<1>2. /\ Len(Program(c)) \in Nat /\ DOMAIN Program(c) = 1..Len(Program(c))
      /\ \A i \in 1..Len(Program(c)) : ItemTyped(Program(c)[i])
  BY <1>1, SettingsAssumption DEF Program, Frame
<1> QED
  BY <1>2 DEF ItemTyped

\* Membership, without the union.
LEMMA IssuedMembers ==
  ASSUME NEW c, NEW ch, NEW x
  PROVE  x \in IssuedParts(c, ch) <=>
           \E i \in DOMAIN Program(c) : \E p \in DOMAIN Program(c)[i].parts :
             x = <<i, p>> /\ Program(c)[i].ch = ch /\ Gone(c, i, p)
<1>1. x \in IssuedParts(c, ch) <=>
        \E i \in DOMAIN Program(c) :
          /\ Program(c)[i].ch = ch
          /\ x \in {i} \X {p \in DOMAIN Program(c)[i].parts : Gone(c, i, p)}
  BY DEF IssuedParts
<1> QED
  BY <1>1

\* Before an item's first step none of its parts is gone.
NoneGone == \A c \in Columns : \A i \in DOMAIN Program(c) :
              \A p \in Nat \ {0} : Gone(c, i, p) <=> i < NextRow(c)

LEMMA GoneAtStart == TypeOK /\ part = 0 => NoneGone
<1> SUFFICES ASSUME TypeOK, part = 0, NEW c \in Columns,
                    NEW i \in DOMAIN Program(c), NEW p \in Nat \ {0},
                    c = Column, i = Row, p < Task
             PROVE  FALSE
  BY DEF Gone, NoneGone
<1>1. Item = Program(c)[i] /\ Item.gives \in Nat
  BY ProgramItems DEF Item
<1>2. Task <= 1
  BY <1>1 DEF Task
<1>3. Task \in Int
  BY <1>1 DEF Task
<1> QED
  BY <1>2, <1>3

\* While an activation item serves, none of its parts is gone.
LEMMA GoneServing ==
  ASSUME TypeOK, part <= Item.gives, NEW c \in Columns,
         NEW i \in DOMAIN Program(c), NEW p \in Nat \ {0}
  PROVE  Gone(c, i, p) <=> i < NextRow(c)
<1> SUFFICES ASSUME c = Column, i = Row, p < Task
             PROVE  FALSE
  BY DEF Gone
<1>1. Item = Program(c)[i] /\ Item.gives \in Nat /\ part \in Nat
  BY ProgramItems DEF Item, TypeOK
<1>2. Task <= 1 /\ Task \in Int
  BY <1>1 DEF Task
<1> QED
  BY <1>2

\* A push: the part is gone, and no other.
LEMMA GonePushed ==
  ASSUME IInv, Push, NEW c \in Columns, NEW i \in DOMAIN Program(c),
         NEW p \in DOMAIN Program(c)[i].parts
  PROVE  /\ Gone(c, i, p)' <=> Gone(c, i, p)
                               \/ (c = Column /\ i = Row /\ p = Task)
         /\ c = Column /\ i = Row /\ p = Task => ~ Gone(c, i, p)
<1>1. /\ Pushing /\ Issuing /\ UNCHANGED <<setting, layer>> /\ TypeOK
      /\ IF Task < Len(Item.parts) THEN part' = part + 1 /\ at' = at
                                   ELSE part' = 0 /\ at' = at + 1
  BY DEF Push, Pushing, IInv
<1>2. /\ Column \in Columns /\ Task \in 1..Len(Item.parts)
      /\ Len(Item.parts) \in Nat /\ at \in Nat \ {0} /\ Row \in Nat \ {0}
  BY <1>1, Issued, PushedTask, IssuePosition DEF IInv, TypeOK
<1>3. /\ DOMAIN Program(c) = 1..Len(Program(c)) /\ Len(Program(c)) \in Nat
      /\ p \in Nat \ {0} /\ i \in Nat \ {0}
      /\ p \in 1..Len(Program(c)[i].parts)
  <2>1. /\ DOMAIN Program(c) = 1..Len(Program(c)) /\ Len(Program(c)) \in Nat
        /\ Program(c)[i].parts \in Seq(SUBSET Cells)
    BY <1>1, ProgramItems
  <2> QED
    BY <2>1
<1>4. Program(c)' = Program(c)
  BY <1>1 DEF Program, Frame
<1>5. c = Column /\ i = Row => Item = Program(c)[i] /\ NextRow(c) = i
  BY <1>2 DEF Item, NextRow
<1>6. CASE at' = at
  <2>1. Task < Len(Item.parts) /\ part' = part + 1
    BY <1>1, <1>2, <1>6
  <2>2. Column' = Column /\ Row' = Row /\ NextRow(c)' = NextRow(c)
    BY <1>6 DEF Column, Row, NextRow
  <2>3. Task' = Task + 1
    <3>1. Item' = Item
      BY <1>1, <2>2 DEF Item, Program, Frame
    <3>2. Item.gives \in Nat /\ part \in Nat
      BY <1>1, Issued DEF ItemTyped, TypeOK
    <3> QED
      BY <2>1, <3>1, <3>2 DEF Task
  <2>4. Gone(c, i, p)' <=> i < NextRow(c) \/ (c = Column /\ i = Row
                                              /\ p < Task + 1)
    BY <2>2, <2>3 DEF Gone
  <2>5. p < Task + 1 <=> p < Task \/ p = Task
    BY <1>2, <1>3
  <2> QED
    BY <1>3, <1>5, <2>4, <2>5 DEF Gone
<1>7. CASE at' = at + 1 /\ part' = 0 /\ ~ (Task < Len(Item.parts))
  <2>1. Task = Len(Item.parts)
    BY <1>2, <1>7
  <2>2. TypeOK'
    BY PushStep DEF IInv
  <2>3. Gone(c, i, p)' <=> i < NextRow(c)'
    <3>1. (TypeOK /\ part = 0 => NoneGone)'
      BY GoneAtStart, PTL
    <3>2. NoneGone'
      BY <1>7, <2>2, <3>1
    <3> QED
      BY <1>3, <1>4, <3>2 DEF NoneGone
  <2>4. NextRow(c)' = NextRow(c) + (IF c = Column THEN 1 ELSE 0)
    BY <1>2, <1>7, NextPlace
  <2>5. NextRow(c) \in Nat
    BY <1>2, RowTypes
  <2>6. CASE c = Column
    <3>1. NextRow(c) = Row /\ NextRow(c)' = Row + 1
      BY <1>2, <2>4, <2>6 DEF NextRow
    <3>2. i < Row + 1 <=> i < Row \/ i = Row
      BY <1>2, <1>3
    <3>3. i = Row => (p < Task \/ p = Task)
      BY <1>2, <1>3, <1>5, <2>1, <2>6
    <3> QED
      BY <1>2, <1>3, <2>3, <2>6, <3>1, <3>2, <3>3 DEF Gone
  <2>7. CASE c # Column
    BY <2>3, <2>4, <2>5, <2>7 DEF Gone
  <2> QED
    BY <2>6, <2>7
<1> QED
  BY <1>1, <1>6, <1>7

\* No part is pushed.
LEMMA IssuedSame ==
  ASSUME NEW c, NEW ch, Program(c)' = Program(c),
         \A i \in DOMAIN Program(c) : \A p \in DOMAIN Program(c)[i].parts :
           Gone(c, i, p)' <=> Gone(c, i, p)
  PROVE  IssuedParts(c, ch)' = IssuedParts(c, ch)
<1>1. ASSUME NEW i \in DOMAIN Program(c)
      PROVE  {p \in DOMAIN Program(c)[i].parts : Gone(c, i, p)}' =
             {p \in DOMAIN Program(c)[i].parts : Gone(c, i, p)}
  OBVIOUS
<1> QED
  BY <1>1 DEF IssuedParts

\* A push adds its part to those of its column and channel.
LEMMA IssuedPushed ==
  ASSUME IInv, Push, NEW c \in Columns, NEW ch
  PROVE  /\ <<Row, Task>> \notin IssuedParts(Column, Item.ch)
         /\ IssuedParts(c, ch)' =
              IF c = Column /\ ch = Item.ch
              THEN IssuedParts(c, ch) \cup {<<Row, Task>>}
              ELSE IssuedParts(c, ch)
<1> DEFINE old == IssuedParts(c, ch)  new == IssuedParts(c, ch)'
<1>1. /\ Pushing /\ Issuing /\ UNCHANGED <<setting, layer>> /\ TypeOK
      /\ PartInv
  BY DEF Push, Pushing, IInv
<1>2. /\ Column \in Columns /\ Task \in 1..Len(Item.parts)
      /\ Item.parts \in Seq(SUBSET Cells) /\ Row \in Nat \ {0}
      /\ Item = Program(Column)[Row] /\ Row \in DOMAIN Program(Column)
  <2>1. Column \in Columns /\ Row \in Nat \ {0}
    BY <1>1, IssuePosition DEF TypeOK
  <2>2. Row <= Len(Program(Column)) /\ Len(Program(Column)) \in Nat
        /\ DOMAIN Program(Column) = 1..Len(Program(Column))
    BY <1>1, <2>1, ProgramItems DEF Issuing
  <2>3. Row \in DOMAIN Program(Column)
    BY <2>1, <2>2
  <2>4. Task \in 1..Len(Item.parts)
    BY <1>1, PushedTask
  <2> QED
    BY <1>1, <2>1, <2>3, <2>4, ProgramItems DEF Item
<1>3. Task \in DOMAIN Item.parts
  BY <1>2
<1>4. Program(c)' = Program(c)
  BY <1>1 DEF Program, Frame
<1>5. <<Row, Task>> \notin IssuedParts(Column, Item.ch)
  <2>1. ~ Gone(Column, Row, Task)
    BY <1>2, <1>3, GonePushed
  <2> QED
    BY <2>1, IssuedMembers
<1>6. ASSUME NEW x
      PROVE  x \in new <=>
               \E i \in DOMAIN Program(c) :
                 \E p \in DOMAIN Program(c)[i].parts :
                   /\ x = <<i, p>> /\ Program(c)[i].ch = ch
                   /\ Gone(c, i, p) \/ (c = Column /\ i = Row /\ p = Task)
  <2>1. x \in new <=>
          \E i \in DOMAIN Program(c) :
            /\ Program(c)[i].ch = ch
            /\ x \in {i} \X {p \in DOMAIN Program(c)[i].parts :
                               Gone(c, i, p)'}
    BY <1>4 DEF IssuedParts
  <2>2. \A i \in DOMAIN Program(c) : \A p \in DOMAIN Program(c)[i].parts :
          Gone(c, i, p)' <=> Gone(c, i, p)
                             \/ (c = Column /\ i = Row /\ p = Task)
    BY GonePushed
  <2> QED
    BY <2>1, <2>2
<1>7. ASSUME NEW x
      PROVE  x \in old <=>
               \E i \in DOMAIN Program(c) :
                 \E p \in DOMAIN Program(c)[i].parts :
                   x = <<i, p>> /\ Program(c)[i].ch = ch /\ Gone(c, i, p)
  BY IssuedMembers
<1> HIDE DEF old, new
<1>8. CASE c = Column /\ ch = Item.ch
  <2>1. Item = Program(c)[Row] /\ Row \in DOMAIN Program(c)
    BY <1>2, <1>8
  <2>2. \A x : x \in new <=> x \in old \/ x = <<Row, Task>>
    BY <1>3, <1>6, <1>7, <1>8, <2>1
  <2>3. new = old \cup {<<Row, Task>>}
    BY <2>2
  <2> QED
    BY <1>5, <1>8, <2>3 DEF old, new
<1>9. CASE ~ (c = Column /\ ch = Item.ch)
  <2>1. c = Column => Item = Program(c)[Row]
    BY <1>2
  <2>2. \A x : x \in new <=> x \in old
    BY <1>6, <1>7, <1>9, <2>1
  <2>3. new = old
    BY <2>2
  <2> QED
    BY <1>5, <1>9, <2>3 DEF old, new
<1> QED
  BY <1>8, <1>9

\* A push counts its task.
LEMMA CountOfPush ==
  ASSUME TypeOK, PartInv, Push, NEW c \in Columns, NEW ch \in Channels
  PROVE  /\ issued[c][ch] \in Nat
         /\ issued'[c][ch] = IF c = Column /\ ch = Item.ch
                             THEN issued[c][ch] + 1 ELSE issued[c][ch]
<1>1. PICK r \in TaskRecord, d \in Columns :
        d = Column /\ r.ch = Item.ch
        /\ issued' = [issued EXCEPT ![d][r.ch] = @ + 1]
  <2>1. Item.ch \in Channels /\ Column \in Columns
    BY Issued DEF Push, Pushing, ItemTyped
  <2>2. issued' = [issued EXCEPT ![Column][Item.ch] = @ + 1]
    BY DEF Push
  <2>3. PICK r \in TaskRecord : r.ch = Item.ch
    BY PushProps
  <2> QED
    BY <2>1, <2>2, <2>3
<1>2. r.ch \in Channels /\ issued \in PerChannel
  BY DEF TaskRecord, TypeOK
<1> DEFINE k == r.ch
<1>3. k \in Channels /\ issued' = [issued EXCEPT ![d][k] = @ + 1]
  BY <1>1, <1>2
<1> HIDE DEF k, Columns, Channels
<1>4. /\ issued[c][ch] \in Nat
      /\ issued'[c][ch] = IF c = d /\ ch = k
                          THEN issued[c][ch] + 1 ELSE issued[c][ch]
  BY <1>2, <1>3, CountUp
<1> QED
  BY <1>1, <1>4 DEF k

LEMMA CountPushed ==
  ASSUME IInv, IssuedInv, Push
  PROVE  IssuedInv'
<1> DEFINE one == <<Row, Task>>
<1>1. SUFFICES ASSUME NEW c \in Columns, NEW ch \in Channels
               PROVE  /\ IsFiniteSet(IssuedParts(c, ch)')
                      /\ issued'[c][ch] = Cardinality(IssuedParts(c, ch)')
  BY DEF IssuedInv
<1>2. /\ issued[c][ch] \in Nat
      /\ issued'[c][ch] = IF c = Column /\ ch = Item.ch
                          THEN issued[c][ch] + 1 ELSE issued[c][ch]
  BY CountOfPush DEF IInv
<1>3. /\ IsFiniteSet(IssuedParts(c, ch))
      /\ issued[c][ch] = Cardinality(IssuedParts(c, ch))
  BY DEF IssuedInv
<1>4. CASE c = Column /\ ch = Item.ch
  <2>1. /\ one \notin IssuedParts(c, ch)
        /\ IssuedParts(c, ch)' = IssuedParts(c, ch) \cup {one}
    BY <1>4, IssuedPushed
  <2>2. /\ IsFiniteSet(IssuedParts(c, ch) \cup {one})
        /\ Cardinality(IssuedParts(c, ch) \cup {one}) =
             Cardinality(IssuedParts(c, ch)) + 1
    BY <1>3, <2>1, FS_AddElement
  <2> QED
    BY <1>2, <1>3, <1>4, <2>1, <2>2
<1>5. CASE ~ (c = Column /\ ch = Item.ch)
  <2>1. IssuedParts(c, ch)' = IssuedParts(c, ch)
    BY <1>5, IssuedPushed
  <2> QED
    BY <1>2, <1>3, <1>5, <2>1
<1> QED
  BY <1>4, <1>5

\* Behind the layer's items every part is pushed.
LEMMA AllIssued ==
  ASSUME IInv, IssuedInv, ~ ItemsLeft, NEW c \in Columns, NEW ch \in Channels
  PROVE  issued[c][ch] = Total(c, ch)
<1>1. TypeOK /\ at \in Nat \ {0} /\ NextRow(c) \in Nat \ {0}
  BY RowTypes DEF IInv, TypeOK
<1>2. /\ DOMAIN Program(c) = 1..Len(Program(c)) /\ Len(Program(c)) \in Nat
      /\ \A d \in Columns : Len(Program(d)) \in Nat
  BY <1>1, ProgramItems
<1>3. Len(Program(c)) < NextRow(c)
  BY <1>1, <1>2, NothingLeft
<1>4. \A i \in DOMAIN Program(c) : \A p : Gone(c, i, p)
  <2>1. \A i \in DOMAIN Program(c) : i < NextRow(c)
    BY <1>1, <1>2, <1>3
  <2> QED
    BY <2>1 DEF Gone
<1>5. IssuedParts(c, ch) =
        UNION {{i} \X DOMAIN Program(c)[i].parts :
                 i \in {j \in DOMAIN Program(c) : Program(c)[j].ch = ch}}
  <2>1. \A i \in DOMAIN Program(c) :
          {p \in DOMAIN Program(c)[i].parts : Gone(c, i, p)} =
            DOMAIN Program(c)[i].parts
    BY <1>4
  <2> QED
    BY <2>1 DEF IssuedParts
<1> QED
  BY <1>5 DEF Total, IssuedInv

-----------------------------------------------------------------------------
(* Closed token groups: the steps.                                         *)

\* What a push makes of the tasks and the queues.
LEMMA PushedTail ==
  ASSUME TypeOK, PartInv, Push
  PROVE  /\ Len(tasks) \in Nat /\ DOMAIN tasks = 1..Len(tasks)
         /\ DOMAIN tasks' = 1..(Len(tasks) + 1)
         /\ Column \in Columns /\ Item.ch \in Channels
         /\ tasks'[Len(tasks) + 1].col = Column
         /\ tasks'[Len(tasks) + 1].ch = Item.ch
         /\ tasks'[Len(tasks) + 1].layer = layer
         /\ tasks'[Len(tasks) + 1].token = Token(Column, Item.ch)
         /\ \A s \in 1..Len(tasks) :
              tasks'[s] = tasks[s] /\ holds'[s] = holds[s]
         /\ \A d \in Columns :
              live'[d] = IF d = Column THEN live[d] \cup {Len(tasks) + 1}
                         ELSE live[d]
<1>1. /\ Column \in Columns /\ Item.ch \in Channels /\ Item.hold \in Nat
  BY Issued DEF Push, Pushing, ItemTyped
<1>2. /\ tasks \in Seq(TaskRecord) /\ holds \in Seq(Nat)
      /\ Len(holds) = Len(tasks)
      /\ live \in [Columns -> SUBSET (1..Len(tasks))]
  BY DEF TypeOK
<1>3. PICK st, r :
        /\ r = [col |-> Column, ch |-> Item.ch, layer |-> layer,
                cells |-> Item.parts[Task], token |-> Token(Column, Item.ch),
                last |-> LastUnit(st, Item.ch)]
        /\ tasks' = Append(tasks, r) /\ holds' = Append(holds, Item.hold)
        /\ live' = [live EXCEPT ![Column] = @ \cup {Len(tasks) + 1}]
  BY DEF Push
<1>4. /\ r.col = Column /\ r.ch = Item.ch /\ r.layer = layer
      /\ r.token = Token(Column, Item.ch)
  BY <1>3
<1>5. /\ Len(tasks) \in Nat /\ DOMAIN tasks = 1..Len(tasks)
      /\ DOMAIN tasks' = 1..(Len(tasks) + 1)
      /\ tasks'[Len(tasks) + 1] = r
      /\ \A s \in 1..Len(tasks) : tasks'[s] = tasks[s] /\ holds'[s] = holds[s]
  <2>1. /\ tasks' = Append(tasks, r) /\ holds' = Append(holds, Item.hold)
        /\ r \in TaskRecord
    <3>1. PICK q \in TaskRecord : tasks' = Append(tasks, q)
      BY PushProps
    <3>2. Append(tasks, q) = Append(tasks, r)
      BY <1>3, <3>1
    <3>3. Append(tasks, q)[Len(tasks) + 1] = q
          /\ Append(tasks, r)[Len(tasks) + 1] = r
      BY <1>2
    <3> QED
      BY <1>3, <3>1, <3>2, <3>3
  <2> QED
    BY <1>1, <1>2, <2>1
<1>6. \A d \in Columns :
        live'[d] = IF d = Column THEN live[d] \cup {Len(tasks) + 1}
                   ELSE live[d]
  BY <1>1, <1>2, <1>3
<1> QED
  BY <1>1, <1>4, <1>5, <1>6

\* The pushed task is the newest of its channel.
LEMMA MinePushed ==
  ASSUME TypeOK, PartInv, Push, NEW c \in Columns, NEW ch \in Channels
  PROVE  Mine(c, ch)' = IF c = Column /\ ch = Item.ch
                        THEN Mine(c, ch) \cup {Len(tasks) + 1}
                        ELSE Mine(c, ch)
<1>1. /\ DOMAIN tasks = 1..Len(tasks) /\ DOMAIN tasks' = 1..(Len(tasks) + 1)
      /\ tasks'[Len(tasks) + 1].col = Column
      /\ tasks'[Len(tasks) + 1].ch = Item.ch
      /\ \A s \in 1..Len(tasks) : tasks'[s] = tasks[s]
      /\ Len(tasks) \in Nat
  BY PushedTail
<1>2. 1..(Len(tasks) + 1) = 1..Len(tasks) \cup {Len(tasks) + 1}
  BY <1>1
<1>3. Mine(c, ch)' =
        {s \in 1..(Len(tasks) + 1) : tasks'[s].col = c /\ tasks'[s].ch = ch}
  BY <1>1 DEF Mine
<1>4. Mine(c, ch) = {s \in 1..Len(tasks) : tasks[s].col = c
                                           /\ tasks[s].ch = ch}
  BY <1>1 DEF Mine
<1> QED
  BY <1>1, <1>2, <1>3, <1>4

\* The newest of some tasks.
LEMMA NewestMine ==
  ASSUME TypeOK, NEW S, S \subseteq DOMAIN tasks, S # {}
  PROVE  /\ Newest(S) \in S /\ Newest(S) \in Nat
         /\ \A u \in S : u \in Nat /\ u <= Newest(S)
<1>1. Len(tasks) \in Nat /\ S \subseteq 1..Len(tasks)
  BY TaskSets
<1> QED
  BY <1>1, NewestProps

LEMMA TokenPushed ==
  ASSUME IInv, CloseInv, Push
  PROVE  LastToken' /\ EarlierToken'
<1>1. TypeOK /\ PartInv /\ IssuedInv /\ LayersInv /\ LastToken /\ EarlierToken
      /\ UNCHANGED <<setting, layer>>
  BY DEF IInv, CloseInv, Push
<1>2. /\ DOMAIN tasks = 1..Len(tasks) /\ DOMAIN tasks' = 1..(Len(tasks) + 1)
      /\ tasks'[Len(tasks) + 1].col = Column
      /\ tasks'[Len(tasks) + 1].ch = Item.ch
      /\ tasks'[Len(tasks) + 1].layer = layer
      /\ tasks'[Len(tasks) + 1].token = Token(Column, Item.ch)
      /\ \A s \in 1..Len(tasks) : tasks'[s] = tasks[s]
      /\ Len(tasks) \in Nat
  BY <1>1, PushedTail
<1>3. IInv' /\ TypeOK'
  BY PushStep DEF IInv
<1>4. ASSUME NEW c \in Columns, NEW ch \in Channels,
             Mine(c, ch)' # {}, issued'[c][ch] \in {0, Total(c, ch)'}
      PROVE  tasks'[Newest(Mine(c, ch))'].token
  <2>1. Total(c, ch)' = Total(c, ch)
    BY <1>1 DEF Total, Program, Frame
  <2>2. /\ issued[c][ch] \in Nat
        /\ issued'[c][ch] = IF c = Column /\ ch = Item.ch
                            THEN issued[c][ch] + 1 ELSE issued[c][ch]
    BY <1>1, CountOfPush
  <2>3. CASE c = Column /\ ch = Item.ch
    <3>1. Mine(c, ch)' = Mine(c, ch) \cup {Len(tasks) + 1}
      BY <1>1, <2>3, MinePushed
    <3>2. Newest(Mine(c, ch))' = Len(tasks) + 1
      <4>1. Mine(c, ch) \subseteq 1..Len(tasks)
        BY <1>1, TaskSets
      <4> DEFINE S == Mine(c, ch) \cup {Len(tasks) + 1}
      <4>2. S \subseteq 1..(Len(tasks) + 1) /\ S # {} /\ Len(tasks) + 1 \in Nat
        BY <1>2, <4>1
      <4>3. Len(tasks) + 1 \in S
        OBVIOUS
      <4> HIDE DEF S
      <4>4. Newest(S) \in S /\ \A u \in S : u <= Newest(S)
        BY <4>2, NewestProps
      <4> DEFINE n == Newest(S)  m == Len(tasks) + 1
      <4>5. n \in 1..m /\ m <= n /\ m \in Nat
        BY <4>2, <4>3, <4>4
      <4> HIDE DEF n, m
      <4>6. n = m
        BY <4>5
      <4> QED
        BY <3>1, <4>6 DEF Newest, S, n, m
    <3>3. issued[c][ch] + 1 = Total(c, ch)
      BY <1>4, <2>1, <2>2, <2>3
    <3>4. Token(c, ch)
      BY <3>3 DEF Token
    <3> QED
      BY <1>2, <2>3, <3>2, <3>4
  <2>4. CASE ~ (c = Column /\ ch = Item.ch)
    <3>1. Mine(c, ch)' = Mine(c, ch)
      BY <1>1, <2>4, MinePushed
    <3>2. issued[c][ch] \in {0, Total(c, ch)} /\ Mine(c, ch) # {}
      BY <1>4, <2>1, <2>2, <2>4, <3>1
    <3>3. tasks[Newest(Mine(c, ch))].token
      BY <1>1, <3>2 DEF LastToken
    <3>4. Newest(Mine(c, ch)) \in 1..Len(tasks)
      BY <1>1, <1>2, <3>2, TaskSets, NewestMine
    <3>5. Newest(Mine(c, ch))' = Newest(Mine(c, ch))
      BY <3>1 DEF Newest
    <3> QED
      BY <1>2, <3>3, <3>4, <3>5
  <2> QED
    BY <2>3, <2>4
<1>5. ASSUME NEW c \in Columns, NEW ch \in Channels,
             {s \in Mine(c, ch) : tasks[s].layer < layer}' # {}
      PROVE  tasks'[Before(c, ch)'].token
  <2> DEFINE S == {s \in Mine(c, ch) : tasks[s].layer < layer}
  <2>1. S \subseteq 1..Len(tasks)
    BY <1>1, <1>2, TaskSets
  <2>2. S' = S
    <3>1. ~ (layer < layer) /\ layer \in Nat
      BY <1>1, ProgramTypes
    <3>2. Mine(c, ch) \subseteq 1..Len(tasks)
      BY <1>1, <1>2, TaskSets
    <3>3. S' = {s \in Mine(c, ch)' : tasks'[s].layer < layer}
      BY <1>1
    <3>4. Mine(c, ch)' = Mine(c, ch)
          \/ Mine(c, ch)' = Mine(c, ch) \cup {Len(tasks) + 1}
      BY <1>1, MinePushed
    <3> QED
      BY <1>2, <3>1, <3>2, <3>3, <3>4
  <2>3. Before(c, ch)' = Newest(S) /\ Before(c, ch) = Newest(S)
    <3>1. Before(c, ch) = Newest(S) /\ Before(c, ch)' = Newest(S)'
      BY DEF Before
    <3> HIDE DEF S
    <3>2. Newest(S)' = Newest(S)
      BY <2>2 DEF Newest
    <3> QED
      BY <3>1, <3>2
  <2>4. S # {}
    BY <1>5, <2>2
  <2>5. tasks[Before(c, ch)].token
    BY <1>1, <2>4 DEF EarlierToken
  <2>6. Newest(S) \in S
    BY <1>1, <1>2, <2>1, <2>4, NewestMine
  <2> QED
    BY <1>2, <2>1, <2>3, <2>5, <2>6
<1> QED
  BY <1>4, <1>5 DEF LastToken, EarlierToken

\* The numbers of a program's items and of their parts.
DomainsOK == \A c \in Columns : \A i \in DOMAIN Program(c) :
               /\ i \in Nat \ {0}
               /\ \A p \in DOMAIN Program(c)[i].parts : p \in Nat \ {0}

LEMMA ItemDomains == TypeOK => DomainsOK
<1> SUFFICES ASSUME TypeOK, NEW c \in Columns, NEW i \in DOMAIN Program(c)
             PROVE  /\ i \in Nat \ {0}
                    /\ \A p \in DOMAIN Program(c)[i].parts : p \in Nat \ {0}
  BY DEF DomainsOK
<1>1. /\ DOMAIN Program(c) = 1..Len(Program(c)) /\ Len(Program(c)) \in Nat
      /\ Program(c)[i].parts \in Seq(SUBSET Cells)
  BY ProgramItems
<1> QED
  BY <1>1

AtFirst == at = 1 => \A c \in Columns : NextRow(c) = 1

LEMMA FirstRow == AtFirst
  BY FirstPlace DEF AtFirst

\* No task is pushed, and the layer is the same.
LEMMA TokensStay ==
  ASSUME CloseInv, UNCHANGED <<setting, layer, issued, tasks>>
  PROVE  LayersInv' /\ LastToken' /\ EarlierToken'
<1>1. LayersInv'
  BY DEF CloseInv, LayersInv
<1>2. LastToken'
  <2>1. \A c \in Columns, ch \in Channels :
          Mine(c, ch)' = Mine(c, ch) /\ Total(c, ch)' = Total(c, ch)
    BY DEF Mine, Total, Program, Frame
  <2>2. \A c \in Columns, ch \in Channels :
          Newest(Mine(c, ch))' = Newest(Mine(c, ch))
    <3> SUFFICES ASSUME NEW c \in Columns, NEW ch \in Channels
                 PROVE  Newest(Mine(c, ch))' = Newest(Mine(c, ch))
      OBVIOUS
    <3> DEFINE M == Mine(c, ch)
    <3>1. M' = M
      BY <2>1
    <3> HIDE DEF M
    <3>2. Newest(M)' = Newest(M)
      BY <3>1 DEF Newest
    <3> QED
      BY <3>2 DEF M
  <2> QED
    BY <2>1, <2>2 DEF CloseInv, LastToken
<1>3. EarlierToken'
  <2> SUFFICES ASSUME NEW c \in Columns, NEW ch \in Channels,
                      {s \in Mine(c, ch) : tasks[s].layer < layer}' # {}
               PROVE  tasks[Before(c, ch)'].token
    BY DEF EarlierToken
  <2> DEFINE S == {s \in Mine(c, ch) : tasks[s].layer < layer}
  <2>1. S' = S
    BY DEF Mine
  <2>2. S # {}
    BY <2>1
  <2>3. tasks[Before(c, ch)].token
    BY <2>2 DEF CloseInv, EarlierToken
  <2>4. Before(c, ch) = Newest(S) /\ Before(c, ch)' = Newest(S)'
    BY DEF Before
  <2> HIDE DEF S
  <2>5. Newest(S)' = Newest(S)
    BY <2>1 DEF Newest
  <2> QED
    BY <2>3, <2>4, <2>5
<1> QED
  BY <1>1, <1>2, <1>3

\* The next items are the same.
LEMMA IssuedStays ==
  ASSUME CloseInv, UNCHANGED <<setting, layer, at, part, issued>>
  PROVE  IssuedInv'
<1>1. \A c \in Columns : Program(c)' = Program(c)
  BY DEF Program, Frame
<1>2. Column' = Column /\ Row' = Row
  BY DEF Column, Row
<1>3. Task' = Task
  BY <1>2 DEF Task, Item, Program, Frame
<1>4. \A c \in Columns : \A i, p : Gone(c, i, p)' <=> Gone(c, i, p)
  BY <1>2, <1>3 DEF Gone, NextRow
<1>5. \A c \in Columns, ch \in Channels :
        IssuedParts(c, ch)' = IssuedParts(c, ch)
  BY <1>1, <1>4, IssuedSame
<1> QED
  BY <1>5 DEF CloseInv, IssuedInv

LEMMA ClosePushed ==
  ASSUME IInv, CloseInv, Push
  PROVE  CloseInv'
<1>1. /\ TypeOK /\ PartInv /\ IssuedInv /\ LayersInv /\ TailInv /\ HoldsInv
      /\ OwnTasks /\ stage = "items" /\ UNCHANGED <<setting, layer, stage>>
  BY DEF IInv, QueueInv, CloseInv, Push, Pushing, Issuing
<1>2. /\ DOMAIN tasks = 1..Len(tasks) /\ DOMAIN tasks' = 1..(Len(tasks) + 1)
      /\ tasks'[Len(tasks) + 1].col = Column
      /\ tasks'[Len(tasks) + 1].ch = Item.ch
      /\ tasks'[Len(tasks) + 1].layer = layer
      /\ \A s \in 1..Len(tasks) : tasks'[s] = tasks[s] /\ holds'[s] = holds[s]
      /\ \A d \in Columns :
           live'[d] = IF d = Column THEN live[d] \cup {Len(tasks) + 1}
                      ELSE live[d]
      /\ Len(tasks) \in Nat
  BY <1>1, PushedTail
<1>3. \A d \in Columns : live[d] \subseteq 1..Len(tasks)
  BY <1>1 DEF TypeOK
<1>4. layer \in Nat /\ \A s \in 1..Len(tasks) : tasks[s].layer \in Nat
  BY <1>1, <1>2, TaskTypes, ProgramTypes
<1>5. \A s \in 1..(Len(tasks) + 1) : s \in 1..Len(tasks) \/ s = Len(tasks) + 1
  BY <1>2
<1>6. LayersInv'
  <2>1. ASSUME NEW s \in DOMAIN tasks'
        PROVE  tasks'[s].layer <= layer
    BY <1>1, <1>2, <1>4, <1>5 DEF LayersInv
  <2>2. ASSUME NEW s \in DOMAIN tasks', NEW t \in DOMAIN tasks', s <= t
        PROVE  tasks'[s].layer <= tasks'[t].layer
    <3>1. CASE t = Len(tasks) + 1
      BY <1>2, <2>1, <3>1
    <3>2. CASE t \in 1..Len(tasks)
      <4>1. s \in 1..Len(tasks)
        BY <1>2, <2>2, <3>2
      <4> QED
        BY <1>1, <1>2, <2>2, <3>2, <4>1 DEF LayersInv
    <3> QED
      BY <1>2, <1>5, <3>1, <3>2
  <2> QED
    BY <1>1, <2>1, <2>2 DEF LayersInv
<1>7. TailInv'
  <2> SUFFICES ASSUME NEW c \in Columns, NEW s \in live'[c],
                      NEW t \in DOMAIN tasks', tasks'[t].col = c,
                      tasks'[t].ch = tasks'[s].ch, s <= t
               PROVE  t \in live'[c]
    BY DEF TailInv, Mine
  <2>1. CASE t = Len(tasks) + 1
    BY <1>2, <2>1
  <2>2. CASE t \in 1..Len(tasks)
    <3>0. s # Len(tasks) + 1
      BY <1>2, <2>2
    <3>1. live'[c] \subseteq live[c] \cup {Len(tasks) + 1}
      BY <1>2
    <3>2. s \in live[c]
      BY <3>0, <3>1
    <3>3. s \in 1..Len(tasks)
      BY <1>3, <3>2
    <3>4. t \in Mine(c, tasks[s].ch)
      BY <1>2, <2>2, <3>3 DEF Mine
    <3>5. t \in live[c]
      BY <1>1, <3>2, <3>4 DEF TailInv
    <3> QED
      BY <1>2, <3>5
  <2> QED
    BY <1>2, <1>5, <2>1, <2>2
<1>8. HoldsInv'
  <2> SUFFICES ASSUME NEW s \in DOMAIN tasks', tasks'[s].layer < layer
               PROVE  holds'[s] = 0
    BY <1>1 DEF HoldsInv
  <2>1. s # Len(tasks) + 1
    BY <1>2, <1>4
  <2>2. s \in 1..Len(tasks)
    BY <1>2, <1>5, <2>1
  <2> QED
    BY <1>1, <1>2, <2>2 DEF HoldsInv
<1>9. BehindInv'
  BY <1>1 DEF BehindInv
<1> QED
  BY <1>1, <1>6, <1>7, <1>8, <1>9, CountPushed, TokenPushed DEF CloseInv

\* A retirement takes the oldest tasks of a channel.
LEMMA CloseRetired ==
  ASSUME IInv, CloseInv, NEW c \in Columns, NEW ch \in Channels,
         Retire(c, ch),
         UNCHANGED <<setting, stage, layer, at, part, holds, issued, tasks>>
  PROVE  CloseInv'
<1>1. TypeOK /\ OwnTasks /\ TailInv
  BY DEF IInv, QueueInv, CloseInv
<1>2. /\ live'[c] = live[c] \ Group(c, ch)
      /\ \A d \in Columns : d # c => live'[d] = live[d]
  BY <1>1 DEF Retire, TypeOK
<1>3. TailInv'
  <2> SUFFICES ASSUME NEW d \in Columns, NEW s \in live'[d],
                      NEW t \in Mine(d, tasks[s].ch), s <= t
               PROVE  t \in live'[d]
    BY DEF TailInv, Mine
  <2>1. s \in live[d] /\ t \in live[d]
    BY <1>1, <1>2 DEF TailInv
  <2>2. s \in Nat /\ t \in Nat /\ \A u \in live[d] : u \in Nat
    BY <1>1, <2>1, TaskSets DEF TypeOK
  <2>3. CASE d = c /\ tasks[s].ch = ch
    <3>1. s \in InChannel(c, ch) /\ s \notin Group(c, ch)
      BY <1>2, <2>1, <2>3 DEF InChannel
    <3>2. PICK u \in Tokened(c, ch) : ~ (s <= u)
      BY <3>1 DEF Group
    <3>3. u \in Nat
      BY <2>2, <2>3, <3>2 DEF Tokened, InChannel
    <3>4. ~ (t <= u)
      BY <2>2, <3>2, <3>3
    <3>5. t \notin Group(c, ch)
      BY <3>2, <3>4 DEF Group
    <3> QED
      BY <1>2, <2>1, <2>3, <3>5
  <2>4. CASE d = c /\ tasks[s].ch # ch
    <3>1. t \notin Group(c, ch)
      BY <2>4 DEF Group, InChannel, Mine
    <3> QED
      BY <1>2, <2>1, <2>4, <3>1
  <2>5. CASE d # c
    BY <1>2, <2>1, <2>5
  <2> QED
    BY <2>3, <2>4, <2>5
<1>4. HoldsInv'
  BY DEF CloseInv, HoldsInv
<1>5. BehindInv'
  BY DEF CloseInv, BehindInv, ItemsLeft, Longest, Program, Frame
<1> QED
  BY <1>3, <1>4, <1>5, TokensStay, IssuedStays DEF CloseInv

\* The layer, or its last barrier, is over.
LEMMA CloseNextLayer ==
  ASSUME IInv, CloseInv, ~ ItemsLeft, NextLayer, part = 0,
         UNCHANGED <<setting, part, live, tasks>>,
         \A s \in DOMAIN tasks : holds'[s] = 0, IInv'
  PROVE  CloseInv'
<1>1. /\ TypeOK /\ IssuedInv /\ LayersInv /\ TailInv /\ LastToken
      /\ EarlierToken /\ layer \in Nat
  BY ProgramTypes DEF IInv, CloseInv
<1>2. TailInv'
  BY <1>1 DEF TailInv, Mine
<1>3. HoldsInv' /\ BehindInv'
  BY DEF HoldsInv, BehindInv, NextLayer
<1>4. CASE LastLayer
  <2>1. UNCHANGED <<layer, at, issued>>
    BY <1>4 DEF NextLayer
  <2> QED
    BY <1>2, <1>3, <2>1, TokensStay, IssuedStays DEF CloseInv
<1>5. CASE ~ LastLayer
  <2>1. layer' = layer + 1 /\ at' = 1 /\ issued' = Zero
    BY <1>5 DEF NextLayer
  <2>2. \A s \in DOMAIN tasks : tasks[s].layer \in Nat
                                /\ tasks[s].layer <= layer
    BY <1>1, TaskTypes DEF LayersInv
  <2>3. \A s \in DOMAIN tasks : tasks[s].layer < layer'
    BY <1>1, <2>1, <2>2
  <2>4. LayersInv'
    BY <1>1, <2>1, <2>2 DEF LayersInv
  <2>5. ASSUME NEW c \in Columns, NEW ch \in Channels, Mine(c, ch) # {}
        PROVE  tasks[Newest(Mine(c, ch))].token
    <3>1. issued[c][ch] = Total(c, ch)
      BY <1>1, AllIssued
    <3> QED
      BY <1>1, <2>5, <3>1 DEF LastToken
  <2>6. \A c \in Columns, ch \in Channels :
          Mine(c, ch)' = Mine(c, ch)
          /\ {s \in Mine(c, ch) : tasks[s].layer < layer}' = Mine(c, ch)
    BY <2>3 DEF Mine
  <2>7. ASSUME NEW c \in Columns, NEW ch \in Channels
        PROVE  /\ Newest(Mine(c, ch))' = Newest(Mine(c, ch))
               /\ Before(c, ch)' = Newest(Mine(c, ch))
    <3> DEFINE S == {s \in Mine(c, ch) : tasks[s].layer < layer}
    <3>1. S' = Mine(c, ch)
      BY <2>6
    <3>2. Before(c, ch)' = Newest(S)'
      BY DEF Before
    <3> HIDE DEF S
    <3>3. Newest(S)' = Newest(Mine(c, ch))
      BY <3>1 DEF Newest
    <3> DEFINE M == Mine(c, ch)
    <3>4. M' = M
      BY <2>6
    <3> HIDE DEF M
    <3>5. Newest(M)' = Newest(M)
      BY <3>4 DEF Newest
    <3> QED
      BY <3>2, <3>3, <3>5 DEF M
  <2>8. LastToken' /\ EarlierToken'
    BY <2>5, <2>6, <2>7 DEF LastToken, EarlierToken
  <2>9. IssuedInv'
    <3> SUFFICES ASSUME NEW c \in Columns, NEW ch \in Channels
                 PROVE  /\ IsFiniteSet(IssuedParts(c, ch)')
                        /\ issued'[c][ch] = Cardinality(IssuedParts(c, ch)')
      BY DEF IssuedInv
    <3>1. NextRow(c)' = 1
      <4>1. AtFirst'
        BY FirstRow, PTL
      <4> QED
        BY <2>1, <4>1 DEF AtFirst
    <3>2. (TypeOK /\ part = 0 => NoneGone)'
      BY GoneAtStart, PTL
    <3>3. NoneGone' /\ TypeOK'
      BY <3>2 DEF IInv
    <3>4. IssuedParts(c, ch)' = {}
      <4>1. ASSUME NEW i \in DOMAIN Program(c)',
                   NEW p \in DOMAIN (Program(c)'[i].parts)
            PROVE  ~ Gone(c, i, p)'
        <5>1. (TypeOK => DomainsOK)'
          BY ItemDomains, PTL
        <5>2. i \in Nat \ {0} /\ p \in Nat \ {0}
          BY <3>3, <4>1, <5>1 DEF DomainsOK
        <5>3. Gone(c, i, p)' <=> i < 1
          BY <3>1, <3>3, <4>1, <5>2 DEF NoneGone
        <5> QED
          BY <5>2, <5>3
      <4> QED
        BY <4>1 DEF IssuedParts
    <3> QED
      BY <2>1, <3>4, FS_EmptySet DEF Zero
  <2> QED
    BY <1>2, <1>3, <2>4, <2>8, <2>9 DEF CloseInv
<1> QED
  BY <1>4, <1>5

\* A served task's hold is lowered; the item's parts are still to come.
LEMMA CloseServed ==
  ASSUME IInv, CloseInv, Serve
  PROVE  CloseInv'
<1>1. /\ stage = "items" /\ part < Item.gives /\ part' = part + 1 /\ TypeOK
      /\ UNCHANGED <<setting, stage, layer, at, live, issued, tasks>>
      /\ holds' = [s \in DOMAIN holds |->
                     IF s \in Served(Column) THEN holds[s] - 1 ELSE holds[s]]
  BY DEF Serve, Issuing, IInv
<1>2. IssuedInv'
  <2>1. ASSUME NEW c \in Columns, NEW ch \in Channels
        PROVE  IssuedParts(c, ch)' = IssuedParts(c, ch)
    <3>1. Program(c)' = Program(c) /\ DomainsOK
      BY <1>1, ItemDomains DEF Program, Frame
    <3>2. Column' = Column /\ Row' = Row /\ NextRow(c)' = NextRow(c)
      BY <1>1 DEF Column, Row, NextRow
    <3>3. Item' = Item /\ Issuing
      BY <1>1, <3>2 DEF Item, Program, Frame, Serve
    <3>4. Item.gives \in Nat /\ part \in Nat
      BY <1>1, <3>3, Issued DEF ItemTyped, TypeOK
    <3>5. Task' <= 1 /\ Task' \in Int
      BY <1>1, <3>3, <3>4 DEF Task
    <3>6. ASSUME NEW i \in DOMAIN Program(c),
                 NEW p \in DOMAIN Program(c)[i].parts
          PROVE  Gone(c, i, p)' <=> Gone(c, i, p)
      <4>1. p \in Nat \ {0}
        BY <3>1 DEF DomainsOK
      <4>2. part <= Item.gives
        BY <1>1, <3>4
      <4>3. Gone(c, i, p) <=> i < NextRow(c)
        BY <1>1, <4>1, <4>2, GoneServing
      <4>4. ~ (p < Task')
        BY <3>5, <4>1
      <4> QED
        BY <3>2, <4>3, <4>4 DEF Gone
    <3> QED
      BY <3>1, <3>6, IssuedSame
  <2> QED
    BY <1>1, <2>1 DEF CloseInv, IssuedInv
<1>3. TailInv'
  BY <1>1 DEF CloseInv, TailInv, Mine
<1>4. HoldsInv'
  <2> SUFFICES ASSUME NEW s \in DOMAIN tasks, tasks[s].layer < layer
               PROVE  holds'[s] = 0
    BY <1>1 DEF HoldsInv
  <2>1. holds[s] = 0 /\ s \in DOMAIN holds
    BY <1>1 DEF CloseInv, HoldsInv, TypeOK
  <2>2. s \notin Served(Column)
    BY <2>1 DEF Served, Waits
  <2> QED
    BY <1>1, <2>1, <2>2
<1>5. BehindInv'
  BY <1>1 DEF BehindInv
<1> QED
  BY <1>1, <1>2, <1>3, <1>4, <1>5, TokensStay DEF CloseInv

\* A column without an item in this row.
LEMMA CloseSkipped ==
  ASSUME IInv, CloseInv, Skip
  PROVE  CloseInv'
<1>1. /\ stage = "items" /\ Row > Len(Program(Column)) /\ at' = at + 1
      /\ UNCHANGED <<setting, stage, layer, part, live, holds, issued, tasks>>
      /\ TypeOK /\ PartInv /\ at \in Nat \ {0}
  BY DEF Skip, IInv, TypeOK
<1>2. Column \in Columns /\ Row \in Nat /\ Len(Program(Column)) \in Nat
  BY <1>1, IssuePosition, ProgramItems
<1>3. part = 0
  BY <1>1, <1>2 DEF PartInv, Issuing
<1>4. IssuedInv'
  <2>1. ASSUME NEW c \in Columns, NEW ch \in Channels
        PROVE  IssuedParts(c, ch)' = IssuedParts(c, ch)
    <3>1. Program(c)' = Program(c) /\ DomainsOK /\ NoneGone
      BY <1>1, <1>3, ItemDomains, GoneAtStart DEF Program, Frame
    <3>2. (TypeOK /\ part = 0 => NoneGone)'
      BY GoneAtStart, PTL
    <3>3. NoneGone'
      BY <1>1, <1>3, <3>2, SkipStep DEF IInv
    <3>4. NextRow(c)' = NextRow(c) + (IF c = Column THEN 1 ELSE 0)
      BY <1>1, NextPlace
    <3>5. NextRow(c) \in Nat
      BY <1>1, RowTypes
    <3>6. ASSUME NEW i \in DOMAIN Program(c),
                 NEW p \in DOMAIN Program(c)[i].parts
          PROVE  Gone(c, i, p)' <=> Gone(c, i, p)
      <4>1. p \in Nat \ {0} /\ i \in Nat \ {0}
        BY <3>1 DEF DomainsOK
      <4>2. (Gone(c, i, p) <=> i < NextRow(c))
            /\ (Gone(c, i, p)' <=> i < NextRow(c)')
        BY <3>1, <3>3, <4>1 DEF NoneGone
      <4>3. CASE c = Column
        <5>1. i <= Len(Program(c)) /\ NextRow(c) = Row
          BY <1>1, <1>2, <4>3, ProgramItems DEF NextRow
        <5>2. i < NextRow(c) /\ i < NextRow(c)'
          BY <1>1, <1>2, <3>4, <3>5, <4>1, <4>3, <5>1
        <5> QED
          BY <4>2, <5>2
      <4>4. CASE c # Column
        BY <3>4, <3>5, <4>2, <4>4
      <4> QED
        BY <4>3, <4>4
    <3> QED
      BY <3>1, <3>6, IssuedSame
  <2> QED
    BY <1>1, <2>1 DEF CloseInv, IssuedInv
<1>5. TailInv' /\ HoldsInv' /\ BehindInv'
  BY <1>1 DEF CloseInv, TailInv, HoldsInv, BehindInv, Mine
<1> QED
  BY <1>1, <1>4, <1>5, TokensStay DEF CloseInv

\* The layer's items are issued, or its barrier is over.
LEMMA CloseEnded ==
  ASSUME IInv, CloseInv, EndItems \/ LeaveBarrier
  PROVE  CloseInv'
<1>1. /\ UNCHANGED <<setting, part, live, tasks>> /\ part = 0 /\ ~ ItemsLeft
      /\ TypeOK /\ DOMAIN tasks = DOMAIN holds
  <2>1. (stage = "items" /\ ~ ItemsLeft) \/ stage = "barrier"
    BY DEF EndItems, LeaveBarrier
  <2>2. ~ ItemsLeft /\ part = 0
    BY <2>1 DEF CloseInv, BehindInv, IInv, PartInv, Issuing
  <2> QED
    BY <2>2 DEF EndItems, LeaveBarrier, IInv, TypeOK
<1>2. \A s \in DOMAIN tasks : holds'[s] = 0
  <2>1. CASE EndItems
    BY <1>1, <2>1 DEF EndItems
  <2>2. CASE LeaveBarrier
    BY <2>2 DEF LeaveBarrier, CloseInv, HoldsInv
  <2> QED
    BY <2>1, <2>2
<1>3. IInv'
  BY EndItemsStep, LeaveBarrierStep
<1>4. CASE NextLayer
  BY <1>1, <1>2, <1>3, <1>4, CloseNextLayer
<1>5. CASE EndItems /\ ~ NextLayer
  <2>1. stage' = "barrier" /\ UNCHANGED <<layer, at, issued>>
    BY <1>5 DEF EndItems
  <2>2. TailInv'
    BY <1>1 DEF CloseInv, TailInv, Mine
  <2>3. HoldsInv'
    BY <1>1, <1>2 DEF HoldsInv
  <2>4. BehindInv'
    BY <1>1, <2>1 DEF BehindInv, ItemsLeft, Longest, Program, Frame
  <2> QED
    BY <1>1, <2>1, <2>2, <2>3, <2>4, TokensStay, IssuedStays DEF CloseInv
<1> QED
  BY <1>4, <1>5 DEF LeaveBarrier

\* The device moves something, or the emitter gives up.
LEMMA CloseStays ==
  ASSUME CloseInv,
         UNCHANGED <<setting, layer, at, part, live, holds, issued, tasks>>,
         stage' = stage \/ stage' = "failed"
  PROVE  CloseInv'
<1>1. TailInv' /\ HoldsInv'
  BY DEF CloseInv, TailInv, HoldsInv, Mine
<1>2. BehindInv'
  BY DEF CloseInv, BehindInv, ItemsLeft, Longest, Program, Frame
<1> QED
  BY <1>1, <1>2, TokensStay, IssuedStays DEF CloseInv

\* Nothing has been pushed.
LEMMA InitClose == Init => CloseInv
<1> SUFFICES ASSUME Init
             PROVE  CloseInv
  OBVIOUS
<1>1. /\ tasks = <<>> /\ layer = 1 /\ at = 1 /\ part = 0 /\ stage = "items"
      /\ issued = Zero /\ TypeOK /\ DOMAIN tasks = {}
      /\ \A c \in Columns : live[c] = {}
  BY InitIInv DEF Init, IInv
<1>2. \A c \in Columns, ch \in Channels : Mine(c, ch) = {}
  BY <1>1 DEF Mine
<1>3. IssuedInv
  <2> SUFFICES ASSUME NEW c \in Columns, NEW ch \in Channels
               PROVE  IssuedParts(c, ch) = {}
    BY <1>1, FS_EmptySet DEF IssuedInv, Zero
  <2>1. NextRow(c) = 1 /\ NoneGone /\ DomainsOK
    BY <1>1, FirstPlace, GoneAtStart, ItemDomains
  <2>2. ASSUME NEW i \in DOMAIN Program(c),
               NEW p \in DOMAIN Program(c)[i].parts
        PROVE  ~ Gone(c, i, p)
    <3>1. i \in Nat \ {0} /\ p \in Nat \ {0}
      BY <2>1 DEF DomainsOK
    <3>2. Gone(c, i, p) <=> i < 1
      BY <2>1, <3>1 DEF NoneGone
    <3> QED
      BY <3>1, <3>2
  <2> QED
    BY <2>2 DEF IssuedParts
<1>4. LayersInv /\ HoldsInv /\ TailInv /\ BehindInv
  BY <1>1 DEF LayersInv, HoldsInv, TailInv, BehindInv
<1>5. LastToken /\ EarlierToken
  BY <1>2 DEF LastToken, EarlierToken
<1> QED
  BY <1>3, <1>4, <1>5 DEF CloseInv

\* One lemma a kind of step.
LEMMA StepClose == IInv /\ CloseInv /\ [Next]_vars => CloseInv'
<1> SUFFICES ASSUME IInv, CloseInv, [Next]_vars
             PROVE  CloseInv'
  OBVIOUS
<1>1. ASSUME NEW c \in Columns, Device(c)
      PROVE  CloseInv'
  <2>1. UNCHANGED emitter /\ UNCHANGED setting
    BY <1>1 DEF Device, AcceptWeight, AcceptFill, DrainOutput, Compute, Move
  <2> QED
    BY <2>1, CloseStays DEF emitter
<1>2. CASE Serve
  BY <1>2, CloseServed
<1>3. CASE Skip
  BY <1>3, CloseSkipped
<1>4. CASE Await
  <2>1. Pushing /\ TypeOK
    BY <1>4 DEF Await, IInv
  <2>2. PICK k \in Oldest : Retire(k[1], k[2])
    BY <1>4 DEF Await
  <2>3. k[1] \in Columns /\ k[2] \in Channels
    BY <2>1, OldestChannels
  <2> QED
    BY <1>4, <2>2, <2>3, CloseRetired DEF Await
<1>5. CASE Raise
  BY <1>5, CloseStays DEF Raise
<1>6. CASE Push
  BY <1>6, ClosePushed
<1>7. CASE EndItems \/ LeaveBarrier
  BY <1>7, CloseEnded
<1>8. CASE AwaitBarrier
  <2>1. PICK c \in Busy : \E s \in live[c] : Retire(c, tasks[s].ch)
    BY <1>8 DEF AwaitBarrier
  <2>2. PICK s \in live[c] : Retire(c, tasks[s].ch)
    BY <2>1
  <2>3. c \in Columns /\ s \in DOMAIN tasks
    BY TaskSets DEF Busy, IInv, TypeOK
  <2>4. tasks[s].ch \in Channels
    BY <2>3, TaskTypes DEF IInv
  <2> QED
    BY <1>8, <2>2, <2>3, <2>4, CloseRetired DEF AwaitBarrier
<1>9. CASE UNCHANGED vars
  BY <1>9, CloseStays DEF vars, emitter
<1> QED
  BY <1>1, <1>2, <1>3, <1>4, <1>5, <1>6, <1>7, <1>8, <1>9 DEF Next, Emit

\* A live task is no newer than its channel's newest, which is live as well
\* and carries a token: so nothing that holds need not be waited for.
LEMMA BarrierClosed == IInv /\ CloseInv => BarrierClear
<1> SUFFICES ASSUME IInv, CloseInv, stage = "barrier", NEW c \in Busy,
                    NEW s \in live[c]
             PROVE  Retirable(c, tasks[s].ch)
  BY DEF BarrierClear
<1> DEFINE ch == tasks[s].ch  n == Newest(Mine(c, ch))
<1>1. /\ TypeOK /\ OwnTasks /\ IssuedInv /\ LastToken /\ TailInv /\ HoldsInv
      /\ ~ ItemsLeft /\ c \in Columns
  BY DEF IInv, QueueInv, CloseInv, BehindInv, Busy
<1>2. s \in DOMAIN tasks /\ tasks[s].col = c /\ ch \in Channels
  BY <1>1, TaskSets, TaskTypes DEF TypeOK, OwnTasks
<1>3. s \in Mine(c, ch) /\ Mine(c, ch) \subseteq DOMAIN tasks
  BY <1>2 DEF Mine
<1>4. n \in Mine(c, ch) /\ s <= n
  BY <1>1, <1>3, NewestMine
<1>5. n \in live[c]
  BY <1>1, <1>4 DEF TailInv
<1>6. tasks[n].token
  <2>1. issued[c][ch] = Total(c, ch)
    BY <1>1, <1>2, AllIssued
  <2> QED
    BY <1>1, <1>2, <1>3, <2>1 DEF LastToken
<1>7. n \in Tokened(c, ch)
  BY <1>4, <1>5, <1>6 DEF Tokened, InChannel, Mine
<1>8. \A t \in Group(c, ch) : holds[t] = 0
  <2>1. \A t \in live[c] : t \in DOMAIN tasks
    BY <1>1, TaskSets DEF TypeOK
  <2> QED
    BY <1>1, <2>1 DEF HoldsInv, Group, InChannel
<1> QED
  BY <1>7, <1>8 DEF Retirable

\* A conflict is with a task of an earlier layer; so is all that its
\* retirement takes along.
LEMMA ConflictClosed == IInv /\ CloseInv => ConflictClear
<1> SUFFICES ASSUME IInv, CloseInv, Pushing, NEW k \in Conflicts
             PROVE  Retirable(k[1], k[2])
  BY DEF ConflictClear
<1> DEFINE c == k[1]  ch == k[2]  cells == Item.parts[Task]
           S == {s \in Mine(c, ch) : tasks[s].layer < layer}
           T == {s \in Mine(c, ch) : tasks[s].cells \cap cells # {}}
<1>1. /\ TypeOK /\ OwnTasks /\ LayersInv /\ EarlierToken /\ TailInv /\ HoldsInv
  BY DEF IInv, QueueInv, CloseInv
<1>2. c \in Columns /\ ch \in Channels /\ Outstanding(c, ch, cells)
  BY DEF Conflicts, Sources
<1>3. PICK s \in InChannel(c, ch) : s <= Dep(c, ch, cells)
  BY <1>2 DEF Outstanding
<1>4. /\ s \in live[c] /\ tasks[s].ch = ch /\ s \in DOMAIN tasks
      /\ s \in Nat \ {0} /\ tasks[s].col = c
  <2>1. s \in live[c] /\ tasks[s].ch = ch
    BY <1>3 DEF InChannel
  <2>2. s \in 1..Len(tasks) /\ Len(tasks) \in Nat /\ DOMAIN tasks = 1..Len(tasks)
    BY <1>1, <1>2, <2>1, TaskSets DEF TypeOK
  <2> QED
    BY <1>1, <1>2, <2>1, <2>2 DEF OwnTasks
<1>5. S \subseteq DOMAIN tasks /\ T \subseteq DOMAIN tasks
  BY DEF Mine
<1>6. Before(c, ch) = Newest(S) /\ Touched(c, ch, cells) = Newest(T)
  BY DEF Before, Touched
<1>7. S # {} => Newest(S) \in S /\ \A u \in S : u <= Newest(S)
  BY <1>1, <1>5, NewestMine
<1>8. T # {} => Newest(T) \in T
  BY <1>1, <1>5, NewestMine
<1>9. S = {} => Newest(S) = 0
  BY DEF Newest
<1>10. T = {} => Newest(T) = 0
  BY DEF Newest
<1>11. Newest(T) = 0 \/ Newest(T) \in DOMAIN tasks
  BY <1>5, <1>8, <1>10
<1>12. T # {} => Newest(T) \in Mine(c, ch)
  BY <1>8
<1>13. layer \in Nat /\ \A t \in DOMAIN tasks : tasks[t].layer \in Nat
  BY <1>1, ProgramTypes, TaskTypes
<1> DEFINE b == Newest(S)  t == Newest(T)
<1>14. S # {} /\ s <= b
  <2>1. CASE t > 0 /\ tasks[t].layer = layer
    <3>1. s <= b
      BY <1>3, <1>6, <2>1 DEF Dep
    <3>2. S # {}
      BY <1>4, <1>9, <3>1
    <3> QED
      BY <3>1, <3>2
  <2>2. CASE ~ (t > 0 /\ tasks[t].layer = layer)
    <3>1. s <= t
      BY <1>3, <1>6, <2>2 DEF Dep
    <3>2. T # {}
      BY <1>4, <1>10, <3>1
    <3>3. t \in Mine(c, ch) /\ t \in DOMAIN tasks /\ t \in Nat
      BY <1>1, <1>5, <1>8, <3>2, TaskSets
    <3>4. t > 0
      BY <1>4, <3>1, <3>3
    <3>5. tasks[t].layer <= layer /\ tasks[t].layer # layer
      BY <1>1, <2>2, <3>3, <3>4 DEF LayersInv
    <3>6. tasks[t].layer < layer
      BY <1>13, <3>3, <3>5
    <3>7. t \in S
      BY <3>3, <3>6
    <3>8. t <= b /\ b \in Nat
      BY <1>1, <1>5, <3>7, NewestMine
    <3> QED
      BY <1>4, <3>1, <3>3, <3>7, <3>8
  <2> QED
    BY <2>1, <2>2
<1>15. b \in Mine(c, ch) /\ b \in DOMAIN tasks /\ tasks[b].layer < layer
  BY <1>5, <1>7, <1>14
<1>16. b \in live[c]
  BY <1>1, <1>2, <1>4, <1>14, <1>15 DEF TailInv
<1>17. tasks[b].token
  BY <1>1, <1>2, <1>6, <1>14 DEF EarlierToken
<1>18. b \in Tokened(c, ch)
  BY <1>15, <1>16, <1>17 DEF Tokened, InChannel, Mine
<1>19. ASSUME NEW u \in Group(c, ch)
       PROVE  holds[u] = 0
  <2>1. u <= b /\ u \in live[c]
    BY <1>18 DEF Group, InChannel
  <2>2. u \in DOMAIN tasks
    BY <1>1, <1>2, <2>1, TaskSets DEF TypeOK
  <2>3. tasks[u].layer <= tasks[b].layer
    BY <1>1, <1>15, <2>1, <2>2 DEF LayersInv
  <2>4. tasks[u].layer < layer
    BY <1>13, <1>15, <2>2, <2>3
  <2> QED
    BY <1>1, <2>2, <2>4 DEF HoldsInv
<1> QED
  BY <1>18, <1>19 DEF Retirable

-----------------------------------------------------------------------------
(* The theorems.                                                           *)

\* The inductive invariant holds in every behaviour: of any number of columns,
\* for frames and build settings of the assumed shape.
THEOREM EngineInvariant == Spec => []IInv
  BY InitIInv, StepIInv, PTL DEF Spec

\* The emitter's and the device's variables keep their types.
THEOREM EngineTypes == Spec => []TypeOK
<1>1. IInv => TypeOK
  BY DEF IInv
<1> QED
  BY <1>1, EngineInvariant, PTL

\* A fill or drain is started only when the tasks of earlier layers that touch
\* its cells, and that it may not run beside, are complete: with a barrier
\* behind every layer, and with overlapped layers by what the tracker says.
THEOREM WorkspaceOrdered == Spec => []NoHazard
<1>1. IInv => NoHazard
  BY DEF IInv, QueueInv
<1> QED
  BY <1>1, EngineInvariant, PTL

\* A freed descriptor's task is complete, whichever tokens the awaits took and
\* whatever the cadence of tokens, the budget and the depth of the queues.
THEOREM DescriptorsDone == Spec => []FreedIsDone
<1>1. IInv => FreedIsDone
  BY DEF IInv, QueueInv
<1> QED
  BY <1>1, EngineInvariant, PTL

\* Behind a frame, and behind each layer without overlap, every token has been
\* consumed: the next frame's first awaits meet only their own.
THEOREM NoTokenLeft == Spec => []TokensSpent
<1>1. IInv => TokensSpent
  <2> SUFFICES ASSUME IInv, AtRest, NEW c \in Columns, NEW ch \in Channels
               PROVE  taken[c][ch] =
                        Cardinality({s \in Mine(c, ch) : tasks[s].token})
    BY DEF TokensSpent, AtRest
  <2>1. live[c] = {}
    BY DEF IInv, EmptyInv
  <2>2. Spent(c, ch) = {s \in Mine(c, ch) : tasks[s].token}
    BY <2>1 DEF Spent
  <2> QED
    BY <2>2 DEF IInv, QueueInv, TokenInv
<1> QED
  BY <1>1, EngineInvariant, PTL

\* With stream sharing the cores of every column see the activations of the
\* schedule one after the other, in every dispatch, if every layer of a build
\* is laid out as share_layer and pad_frame lay it out: whatever the overlap of
\* the three channels, the fifos' depths and the period of the sharing.
THEOREM CoresOrdered == LaidOut => (Spec => []CoresInOrder)
<1> SUFFICES ASSUME LaidOut
             PROVE  Spec => []CoresInOrder
  OBVIOUS
<1>1. IInv /\ OrderInv /\ [Next]_vars => OrderInv'
  BY StepOrder
<1>2. IInv /\ OrderInv => CoresInOrder
  BY OrderedPositions DEF IInv
<1> QED
  BY <1>1, <1>2, InitOrder, EngineInvariant, PTL DEF Spec

\* The barrier behind a layer, or behind the frame, never meets a channel
\* whose newest task carries no token: run_column_programs and finish_frame
\* raise at no barrier, whatever the items, the cadence of tokens and the
\* overlap; what is awaited is up to the device.
THEOREM BarrierDrains == Spec => []BarrierClear
<1>1. IInv /\ CloseInv /\ [Next]_vars => CloseInv'
  BY StepClose
<1>2. IInv /\ CloseInv => BarrierClear
  BY BarrierClosed
<1> QED
  BY <1>1, <1>2, InitClose, EngineInvariant, PTL DEF Spec

\* A task that conflicts with one about to be pushed, and is not complete, can
\* be retired up to: it and all before it on its channel are of earlier
\* layers, none of them is held, and a token closes their group.  push never
\* raises on a conflict.
THEOREM ConflictsDrain == Spec => []ConflictClear
<1>1. IInv /\ CloseInv /\ [Next]_vars => CloseInv'
  BY StepClose
<1>2. IInv /\ CloseInv => ConflictClear
  BY ConflictClosed
<1> QED
  BY <1>1, <1>2, InitClose, EngineInvariant, PTL DEF Spec
=============================================================================
