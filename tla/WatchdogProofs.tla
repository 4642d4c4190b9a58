--------------------------- MODULE WatchdogProofs ---------------------------
(***************************************************************************)
(* The theorems of Watchdog: the report of the watchdog thread is neither  *)
(* late nor false nor stale, whatever the number of shards, the intervals  *)
(* and the order in which the two stores of a beat become visible.         *)
(***************************************************************************)
EXTENDS Watchdog, TLAPS

TypeOK ==
    /\ now \in Nat
    /\ stale \in Nat
    /\ main \in {"spawning", "joining", "exited"}
    /\ turn \in Shards
    /\ watching \in BOOLEAN
    /\ mode \in [Shards -> {"unbound", "spawned", "turning", "wedged", "dead"}]
    /\ since \in [Shards -> Nat]
    /\ due \in [Shards -> Nat]
    /\ heartbeat \in [Shards -> Nat]
    /\ heartbeats \in [Shards -> BOOLEAN]
    /\ unseen \in [Shards -> SUBSET Store]
    /\ watchDue \in Nat
    /\ stalled \in SUBSET Shards

\* The first loop of `run` is at a shard no thread has been spawned for.
Unspawned ==
    main = "spawning" => \A s \in Shards : s >= turn => mode[s] = "unbound"

\* A shard that has not started has not beaten, and only a turning one beats.
BeatsOnlyTurning(s) ==
    /\ mode[s] \in {"unbound", "spawned"} => ~heartbeats[s]
    /\ mode[s] # "turning" => unseen[s] = {}

\* No time lies in the future, and the beat of a stuck shard is from before it
\* got stuck.
TimesPast(s) ==
    /\ since[s] <= now
    /\ heartbeat[s] <= now
    /\ Stuck(s) => heartbeat[s] <= since[s]

\* Between two beats the timer stands for the last one, or for the start.
TimerSet(s) ==
    unseen[s] = {} =>
        IF heartbeats[s] THEN due[s] = heartbeat[s] + Heartbeat
                         ELSE due[s] <= StartBy + Heartbeat

\* A turning executor is not behind its timers.
TimerKept(s) == mode[s] = "turning" => now <= Latest(s)

\* While the stores of a beat travel, the value it overwrites is either of the
\* beat before, or of none, or the executor has just come back.
HalfBeaten(s) ==
    unseen[s] # {} =>
        /\ due[s] = now + Heartbeat
        /\ "heartbeats" \notin unseen[s] => heartbeats[s]
        /\ "heartbeat" \notin unseen[s] => heartbeat[s] = now
        /\ "heartbeat" \in unseen[s] =>
              \/ now <= heartbeat[s] + Heartbeat + Slack
              \/ /\ "heartbeats" \in unseen[s] => ~heartbeats[s]
                 /\ now <= FirstBeatBy
              \/ now <= since[s] + Slack

ShardInv(s) ==
    /\ BeatsOnlyTurning(s)
    /\ TimesPast(s)
    /\ TimerSet(s)
    /\ TimerKept(s)
    /\ HalfBeaten(s)

\* When the watchdog last looked; before its first look, when it started.
Looked == watchDue - Interval

\* What the last look saw, in terms of the shards as they are now.
LookInv ==
    /\ Looked <= now
    /\ watching => now <= watchDue + Late
    /\ watchDue >= Interval
    /\ \A s \in stalled :
          /\ watching
          /\ \/ Stuck(s) \/ Looked <= since[s] + Slack \/ TooTight
             \/ stale < FirstBeatBy /\ Looked <= FirstBeatBy
    /\ \A s \in Shards :
          /\ watching /\ Stuck(s) /\ heartbeats[s] /\ Looked > since[s] + stale
          => s \in stalled

WatchInv == Unspawned /\ (\A s \in Shards : ShardInv(s)) /\ LookInv

-----------------------------------------------------------------------------

LEMMA ShardsFacts ==
  /\ Shards \subseteq Nat /\ 0 \in Shards
  /\ \A s \in Shards : s + 1 < Count => s + 1 \in Shards
  BY TimingAssumption DEF Shards

LEMMA TypeInit == Init => TypeOK
  BY ShardsFacts, TimingAssumption DEF Init, TypeOK

LEMMA TypeStep == TypeOK /\ [Next]_vars => TypeOK'
<1> SUFFICES ASSUME TypeOK, [Next]_vars
             PROVE  TypeOK'
  OBVIOUS
<1> USE DEF TypeOK
<1>1. CASE Spawn
  BY <1>1, ShardsFacts, TimingAssumption DEF Spawn, beats, watch
<1>2. CASE SpawnFails \/ Join
  BY <1>2 DEF SpawnFails, Join, beats, watch
<1>3. ASSUME NEW s \in Shards, Start(s) \/ Die(s) \/ Wedge(s) \/ Unwedge(s)
      PROVE  TypeOK'
  BY <1>3, TimingAssumption DEF Start, Die, Wedge, Unwedge, process, beats, watch
<1>4. ASSUME NEW s \in Shards, Beat(s)
      PROVE  TypeOK'
  BY <1>4, TimingAssumption DEF Beat, process, watch
<1>5. ASSUME NEW s \in Shards, Propagate(s)
      PROVE  TypeOK'
  <2>1. /\ unseen' \in [Shards -> SUBSET Store]
        /\ heartbeat' \in [Shards -> Nat]
    BY <1>5 DEF Propagate, Elapsed
  <2>2. heartbeats' \in [Shards -> BOOLEAN]
    BY <1>5 DEF Propagate
  <2>3. QED BY <1>5, <2>1, <2>2 DEF Propagate, process, watch
<1>6. CASE Look
  BY <1>6, TimingAssumption DEF Look, Seen, Stalled, process, beats
<1>7. CASE Tick
  BY <1>7 DEF Tick, process, beats, watch
<1>8. CASE UNCHANGED vars
  BY <1>8 DEF vars, process, beats, watch
<1>9. QED
  BY <1>1, <1>2, <1>3, <1>4, <1>5, <1>6, <1>7, <1>8 DEF Next

\* What a step can do to one shard, as other threads and the clock see it.
ShardFrame(s) ==
    /\ mode'[s] = mode[s] /\ since'[s] = since[s] /\ due'[s] = due[s]
    /\ heartbeat'[s] = heartbeat[s] /\ (heartbeats'[s] <=> heartbeats[s])
    /\ unseen'[s] = unseen[s]

\* A shard no step of its own moves keeps its invariant while time stands.
LEMMA ShardStands ==
  ASSUME TypeOK, NEW s \in Shards, ShardInv(s), ShardFrame(s), now' = now
  PROVE  ShardInv(s)'
  BY DEF ShardInv, ShardFrame, BeatsOnlyTurning, TimesPast, TimerSet, TimerKept,
         HalfBeaten, Stuck, Latest

LEMMA InitWatch == Init => WatchInv
<1> SUFFICES ASSUME Init
             PROVE  WatchInv
  OBVIOUS
<1>1. Unspawned
  BY DEF Init, Unspawned
<1>2. ASSUME NEW s \in Shards
      PROVE  ShardInv(s)
  BY TimingAssumption DEF Init, ShardInv, BeatsOnlyTurning, TimesPast, TimerSet,
                          TimerKept, HalfBeaten, Stuck
<1>3. LookInv
  BY TimingAssumption DEF Init, LookInv, Looked, Stuck
<1>4. QED BY <1>1, <1>2, <1>3 DEF WatchInv

\* The first loop leaves what it spawned behind it.
LEMMA UnspawnedStep ==
  ASSUME TypeOK, WatchInv, [Next]_vars
  PROVE  Unspawned'
<1> USE DEF TypeOK, WatchInv, Unspawned
<1>1. CASE Spawn
  BY <1>1, ShardsFacts DEF Spawn
<1>2. CASE SpawnFails \/ Join
  BY <1>2 DEF SpawnFails, Join
<1>3. ASSUME NEW s \in Shards,
             Start(s) \/ Die(s) \/ Wedge(s) \/ Unwedge(s)
      PROVE  Unspawned'
  BY <1>3 DEF Start, Die, Wedge, Unwedge, process
<1>4. ASSUME NEW s \in Shards, Beat(s) \/ Propagate(s)
      PROVE  Unspawned'
  BY <1>4 DEF Beat, Propagate, process
<1>5. CASE Look \/ Tick \/ UNCHANGED vars
  BY <1>5 DEF Look, Tick, vars, process
<1>6. QED BY <1>1, <1>2, <1>3, <1>4, <1>5 DEF Next

\* Every step of a shard keeps what is known of that shard.
LEMMA ShardMoves ==
  ASSUME TypeOK, NEW s \in Shards, ShardInv(s),
         \/ Start(s) \/ Die(s) \/ Beat(s) \/ Propagate(s) \/ Wedge(s) \/ Unwedge(s)
  PROVE  ShardInv(s)'
<1> USE TimingAssumption DEF TypeOK, ShardInv, TimesPast, Stuck
<1>1. CASE Start(s)
  BY <1>1 DEF Start, beats, BeatsOnlyTurning, TimerSet, TimerKept, HalfBeaten,
              Latest
<1>2. CASE Die(s) \/ Wedge(s)
  BY <1>2 DEF Die, Wedge, beats, BeatsOnlyTurning, TimerSet, TimerKept, HalfBeaten
<1>3. CASE Unwedge(s)
  BY <1>3 DEF Unwedge, beats, BeatsOnlyTurning, TimerSet, TimerKept, HalfBeaten,
              Latest
<1>4. CASE Beat(s)
  <2>1. /\ mode[s] = "turning" /\ now' = now /\ mode' = mode /\ since' = since
        /\ heartbeat' = heartbeat /\ heartbeats' = heartbeats
        /\ unseen[s] = {} /\ unseen'[s] = {"heartbeat", "heartbeats"}
        /\ due'[s] = now + Heartbeat
    BY <1>4 DEF Beat, Turns, Store
  <2>2. BeatsOnlyTurning(s)' /\ TimerSet(s)' /\ TimerKept(s)' /\ TimesPast(s)'
    BY <2>1 DEF BeatsOnlyTurning, TimerSet, TimerKept, Latest
  <2>3. now <= Latest(s)
    BY <2>1 DEF TimerKept
  <2>4. \/ now <= heartbeat[s] + Heartbeat + Slack
        \/ ~heartbeats[s] /\ now <= FirstBeatBy
        \/ now <= since[s] + Slack
    BY <2>1, <2>3 DEF Latest, TimerSet, FirstBeatBy
  <2>5. HalfBeaten(s)'
    BY <2>1, <2>4 DEF HalfBeaten
  <2>6. QED BY <2>2, <2>5
<1>5. CASE Propagate(s)
  <2>1. PICK store \in unseen[s] :
          /\ unseen' = [unseen EXCEPT ![s] = @ \ {store}]
          /\ heartbeat' = IF store = "heartbeat"
                          THEN [heartbeat EXCEPT ![s] = Elapsed] ELSE heartbeat
          /\ heartbeats' = IF store = "heartbeats"
                           THEN [heartbeats EXCEPT ![s] = TRUE] ELSE heartbeats
    BY <1>5 DEF Propagate
  <2>2. /\ mode[s] = "turning" /\ now' = now /\ mode' = mode /\ since' = since
        /\ due' = due /\ due[s] = now + Heartbeat
        /\ store \in {"heartbeat", "heartbeats"}
        /\ unseen'[s] = unseen[s] \ {store}
        /\ unseen[s] \subseteq {"heartbeat", "heartbeats"}
    BY <1>5, <2>1 DEF Propagate, BeatsOnlyTurning, HalfBeaten, Store
  <2>3. CASE store = "heartbeat"
    <3>1. heartbeat'[s] = now /\ heartbeats' = heartbeats
      BY <2>1, <2>3 DEF Elapsed
    <3>2. QED
      BY <2>2, <2>3, <3>1 DEF BeatsOnlyTurning, TimerSet, TimerKept, HalfBeaten,
                              Latest
  <2>4. CASE store = "heartbeats"
    <3>1. heartbeat' = heartbeat /\ heartbeats'[s]
      BY <2>1, <2>4
    <3>2. QED
      BY <2>2, <2>4, <3>1 DEF BeatsOnlyTurning, TimerSet, TimerKept, HalfBeaten,
                              Latest
  <2>5. QED BY <2>2, <2>3, <2>4
<1>6. QED BY <1>1, <1>2, <1>3, <1>4, <1>5

\* A step of one shard is invisible in the others.
LEMMA OthersStand ==
  ASSUME TypeOK, NEW s \in Shards, NEW t \in Shards, s # t,
         \/ Start(s) \/ Die(s) \/ Beat(s) \/ Propagate(s) \/ Wedge(s) \/ Unwedge(s)
  PROVE  ShardFrame(t) /\ now' = now
<1> USE DEF TypeOK, ShardFrame
<1>1. CASE Start(s) \/ Die(s) \/ Wedge(s) \/ Unwedge(s)
  BY <1>1 DEF Start, Die, Wedge, Unwedge, beats
<1>2. CASE Beat(s)
  BY <1>2 DEF Beat
<1>3. CASE Propagate(s)
  BY <1>3 DEF Propagate
<1>4. QED BY <1>1, <1>2, <1>3

LEMMA ShardStep ==
  ASSUME TypeOK, WatchInv, [Next]_vars, NEW t \in Shards
  PROVE  ShardInv(t)'
<1>0. ShardInv(t)
  BY DEF WatchInv
<1>1. CASE Spawn
  <2>1. CASE t = turn
    <3>1. mode[t] = "unbound"
      BY <1>1, <2>1, ShardsFacts DEF Spawn, WatchInv, Unspawned, TypeOK
    <3>2. QED
      BY <1>0, <1>1, <2>1, <3>1
         DEF Spawn, beats, TypeOK, ShardInv, BeatsOnlyTurning, TimesPast,
             TimerSet, TimerKept, HalfBeaten, Stuck
  <2>2. CASE t # turn
    BY <1>0, <1>1, <2>2, ShardStands DEF Spawn, beats, TypeOK, ShardFrame
  <2>3. QED BY <2>1, <2>2
<1>2. CASE SpawnFails \/ Join \/ Look \/ UNCHANGED vars
  <2>1. ShardFrame(t) /\ now' = now
    BY <1>2 DEF SpawnFails, Join, Look, vars, beats, ShardFrame
  <2>2. QED BY <1>0, <2>1, ShardStands
<1>3. ASSUME NEW s \in Shards,
             \/ Start(s) \/ Die(s) \/ Beat(s) \/ Propagate(s)
             \/ Wedge(s) \/ Unwedge(s)
      PROVE  ShardInv(t)'
  BY <1>0, <1>3, ShardMoves, OthersStand, ShardStands
<1>4. CASE Tick
  <2>1. /\ unseen[t] = {} /\ now' = now + 1 /\ UNCHANGED <<mode, since, due, beats>>
        /\ mode[t] = "turning" => now < Latest(t)
    BY <1>4 DEF Tick
  <2>2. QED
    BY <1>0, <2>1, TimingAssumption
       DEF beats, TypeOK, ShardInv, BeatsOnlyTurning, TimesPast, TimerSet,
           TimerKept, HalfBeaten, Stuck, Latest
<1>5. QED BY <1>1, <1>2, <1>3, <1>4 DEF Next

\* What a look may name, and why: the two conjuncts of NoFalseAlarm.
Warranted(s) ==
    /\ now > due[s] - Heartbeat + stale \/ "heartbeat" \in unseen[s]
    /\ \/ Stuck(s)
       \/ /\ mode[s] = "turning"
          /\ now <= since[s] + Slack \/ TooTight \/ HalfSeen(s)

LEMMA StalledWarranted ==
  ASSUME TypeOK, WatchInv, NEW s \in Stalled
  PROVE  Warranted(s)
<1>1. /\ s \in Shards /\ heartbeats[s] /\ now > stale
      /\ heartbeat[s] + stale < now
  BY TimingAssumption DEF Stalled, Started, Deadline, TypeOK
<1>2. ShardInv(s)
  BY <1>1 DEF WatchInv
<1>3. Stuck(s) \/ mode[s] = "turning"
  BY <1>1, <1>2 DEF ShardInv, BeatsOnlyTurning, Stuck, TypeOK
<1>4. CASE unseen[s] = {}
  <2>1. due[s] = heartbeat[s] + Heartbeat
    BY <1>1, <1>2, <1>4 DEF ShardInv, TimerSet
  <2>2. mode[s] = "turning" => now <= since[s] + Slack \/ TooTight
    BY <1>1, <1>2, <2>1, TimingAssumption
       DEF ShardInv, TimerKept, Latest, TooTight, TypeOK
  <2>3. QED BY <1>1, <1>3, <2>1, <2>2, TimingAssumption DEF Warranted, TypeOK
<1>5. CASE unseen[s] # {}
  <2>1. "heartbeat" \in unseen[s]
    BY <1>1, <1>2, <1>5 DEF ShardInv, HalfBeaten, TypeOK
  <2>2. \/ now <= heartbeat[s] + Heartbeat + Slack
        \/ "heartbeats" \notin unseen[s] /\ now <= FirstBeatBy
        \/ now <= since[s] + Slack
    BY <1>1, <1>2, <1>5, <2>1 DEF ShardInv, HalfBeaten
  <2>3. "heartbeats" \notin unseen[s] => unseen[s] = {"heartbeat"}
    BY <1>1, <2>1 DEF TypeOK, Store
  <2>4. now <= since[s] + Slack \/ TooTight \/ HalfSeen(s)
    BY <1>1, <2>2, <2>3, TimingAssumption DEF TooTight, HalfSeen, TypeOK
  <2>5. QED BY <1>3, <2>1, <2>4 DEF Warranted
<1>6. QED BY <1>4, <1>5

LEMMA LookStep ==
  ASSUME TypeOK, WatchInv, [Next]_vars
  PROVE  LookInv'
<1> USE TimingAssumption DEF TypeOK, LookInv, Looked, TooTight, FirstBeatBy
<1>0. LookInv /\ \A s \in Shards : ShardInv(s)
  BY DEF WatchInv
<1>1. CASE Spawn
  <2>1. mode[turn] = "unbound"
    BY <1>1, ShardsFacts DEF Spawn, WatchInv, Unspawned
  <2>2. \A s \in Shards : Stuck(s)' <=> Stuck(s)
    BY <1>1, <2>1 DEF Spawn, Stuck
  <2>3. QED BY <1>0, <1>1, <2>2 DEF Spawn, beats, watch
<1>2. CASE SpawnFails \/ Join \/ UNCHANGED vars
  BY <1>0, <1>2 DEF SpawnFails, Join, vars, process, beats, watch, Stuck
<1>3. ASSUME NEW s \in Shards, Start(s) \/ Die(s) \/ Wedge(s) \/ Unwedge(s)
      PROVE  LookInv'
  <2>1. /\ since' = [since EXCEPT ![s] = now]
        /\ now' = now /\ heartbeats' = heartbeats /\ watching' = watching
        /\ watchDue' = watchDue /\ stalled' = stalled /\ stale' = stale
    BY <1>3 DEF Start, Die, Wedge, Unwedge, process, beats, watch
  <2>2. \A t \in Shards \ {s} : Stuck(t)' <=> Stuck(t)
    BY <1>3 DEF Start, Die, Wedge, Unwedge, Stuck
  <2>3. QED BY <1>0, <2>1, <2>2
<1>4. ASSUME NEW s \in Shards, Beat(s) \/ Propagate(s)
      PROVE  LookInv'
  <2>1. /\ now' = now /\ since' = since /\ mode' = mode /\ watching' = watching
        /\ watchDue' = watchDue /\ stalled' = stalled /\ stale' = stale
    BY <1>4 DEF Beat, Propagate, process, watch
  <2>2. \A t \in Shards : Stuck(t) => (heartbeats'[t] <=> heartbeats[t])
    <3>1. ~Stuck(s)
      BY <1>0, <1>4 DEF Beat, Propagate, Turns, Stuck, ShardInv, BeatsOnlyTurning
    <3>2. \A t \in Shards \ {s} : heartbeats'[t] <=> heartbeats[t]
      BY <1>4 DEF Beat, Propagate
    <3>3. QED BY <3>1, <3>2
  <2>3. QED BY <1>0, <2>1, <2>2 DEF Stuck
<1>5. CASE Look
  <2>1. /\ watching /\ watching' = watching /\ now' = now /\ since' = since
        /\ mode' = mode /\ heartbeats' = heartbeats
        /\ watchDue' = now + Interval /\ stalled' = Stalled /\ stale' = stale
    BY <1>5 DEF Look, Seen, process, beats
  <2>2. \A s \in Stalled :
          \/ Stuck(s) \/ now <= since[s] + Slack \/ TooTight
          \/ stale < FirstBeatBy /\ now <= FirstBeatBy
    BY StalledWarranted DEF Warranted, HalfSeen
  <2>3. ASSUME NEW s \in Shards, Stuck(s), heartbeats[s], now > since[s] + stale
        PROVE  s \in Stalled
    BY <1>0, <2>3 DEF ShardInv, TimesPast, Stalled, Started, Deadline
  <2>4. QED BY <2>1, <2>2, <2>3 DEF Stuck
<1>6. CASE Tick
  BY <1>0, <1>6 DEF Tick, process, beats, watch, Stuck
<1>7. QED BY <1>1, <1>2, <1>3, <1>4, <1>5, <1>6 DEF Next

LEMMA WatchInvariant == Spec => [](TypeOK /\ WatchInv)
<1>1. TypeOK /\ WatchInv /\ [Next]_vars => WatchInv'
  BY UnspawnedStep, ShardStep, LookStep DEF WatchInv
<1>2. QED BY <1>1, TypeInit, TypeStep, InitWatch, PTL DEF Spec

\* A shard that has beaten and then stays wedged, or lost, for longer than
\* --stall-seconds and one look of the watchdog, late or not, is on its report (watch of
\* watchdog.rs, Shards::stalled of stats.rs), for any number of shards and any
\* intervals and threshold.
THEOREM StallsAreReported == Spec => []StallsReported
<1>1. TypeOK /\ WatchInv => StallsReported
  BY TimingAssumption DEF TypeOK, WatchInv, LookInv, Looked, StallsReported
<1>2. QED BY <1>1, WatchInvariant, PTL

\* A look names a shard only when it has in truth been silent for longer than
\* --stall-seconds, or its beat of that moment is half seen between the two
\* relaxed stores of Shards::beat; and, whatever the threshold, the shard it
\* names is stuck, has just come back, or idles under a threshold of less than
\* a period or is half seen at boot under one of less than a boot.
THEOREM NoAlarmIsFalse == Spec => NoFalseAlarm
<1>1. TypeOK /\ WatchInv /\ [Next]_vars =>
        [Look => \A s \in stalled' :
            /\ now > due[s] - Heartbeat + stale \/ "heartbeat" \in unseen[s]
            /\ \/ Stuck(s)
               \/ /\ mode[s] = "turning"
                  /\ now <= since[s] + Slack \/ TooTight \/ HalfSeen(s)]_vars
  BY StalledWarranted DEF Look, Seen, Warranted
<1>2. QED BY <1>1, WatchInvariant, PTL DEF Spec, NoFalseAlarm

\* A shard that came back is off the report one beat and one look later: every
\* look of `watch` starts from scratch.
THEOREM ReportsRecover == Spec => []Recovers
<1>1. TypeOK /\ WatchInv => Recovers
  BY TimingAssumption DEF TypeOK, WatchInv, LookInv, Looked, Recovers, FirstBeatBy
<1>2. QED BY <1>1, WatchInvariant, PTL

=============================================================================
